---- MODULE Spec2Model ----
(***************************************************************************)
(* The request-dispatch pipeline of the API gateway: circuit breaker,      *)
(* round-robin load balancer, rate limiter and route index, as state       *)
(* machines translated from apps/gateway/src/services.                     *)
(***************************************************************************)
EXTENDS Integers, Sequences, FiniteSets, TLC

\* ------------------------------------------------------------------ bounds
\* CIRCUIT_BREAKER_FAILURE_THRESHOLD and CIRCUIT_BREAKER_RESET_TIMEOUT are
\* configuration values; the model runs them small (time is in abstract ticks).
FailureThreshold == 2
ResetTimeout == 2
\* The clock stops advancing at MaxTime; failure counters are capped at MaxFailures.
MaxTime == 3
MaxFailures == 3

\* getServiceInstance calls counted per service (history counter of the load balancer).
MaxCalls == 4
\* RATE_LIMIT_POINTS and RATE_LIMIT_DURATION (seconds; one tick is one second) are
\* configuration values, run small; a counter is not incremented beyond MaxCount.
Points == 2
Duration == 2
MaxCount == 3

Services == {"svcA", "svcB"}
\* Concurrent callers (requests in flight in the one Node.js process).
Procs == {"p1", "p2"}

VARIABLES
    states,     \* CircuitBreakerService.states: serviceId -> CircuitBreakerState (lazily filled)
    now,        \* the wall clock (Date.now()), in ticks
    lastCall,   \* history: the breaker call made last, its state before it and its outcome
    run,        \* history: recordError calls made on a breaker since it was fresh
    db,         \* the durable route collection (routeModel), in natural order
    routes,     \* RouteService.routes: the live index, a Map in insertion order
    alive,      \* the endpoint URLs whose /health answers 200 right now (environment)
    serviceEndpoints, \* LoadBalancerService.serviceEndpoints: serviceId -> {index, urls}
    proc,       \* each caller's position in the async method it runs, and its locals
    lbOut,      \* history: the load-balancer call that completed last, and its outcome
    calls,      \* history: getServiceInstance calls completed per service
    created,    \* history: createRoute calls that returned their route, per serviceId
    healthOut,  \* history: what the checkHealth call that returned last returned
    monitor,    \* HealthMonitorService: its tick in progress, healthFailures, what it stored and sent
    redis,      \* the Redis keyspace: key -> [count, ttl] (ttl -1: no expiry set)
    window,     \* history per key: checkLimit calls in the current window, how the last one ended
    rlOut,      \* history: the checkLimit call that completed last, and its outcome
    reqOut      \* history: the request handleRequest answered last, and its answer

cbVars == <<states, now, lastCall, run>>
lbVars == <<db, routes, alive, serviceEndpoints, proc, lbOut, calls, created, healthOut, monitor>>
rlVars == <<redis, window, rlOut>>
vars == <<states, now, lastCall, run, db, routes, alive, serviceEndpoints, proc, lbOut,
          calls, created, healthOut, monitor, redis, window, rlOut, reqOut>>
otherThanCB == <<lbVars, rlVars, reqOut>>
otherThanLB == <<cbVars, rlVars, reqOut>>

\* ------------------------------------------------------- circuit breaker
\* A nullable Date is the empty tuple (null) or a one-element tuple <<t>>.
NoDate == <<>>

\* The state getServiceState creates on first reference and resetState restores.
FreshState == [failures |-> 0, lastFailure |-> NoDate, status |-> "CLOSED"]

\* this.states.get(serviceId) after getServiceState has made sure it exists.
getServiceState(serviceId) ==
    IF serviceId \in DOMAIN states THEN states[serviceId] ELSE FreshState

\* Variant: one state object shared by every serviceId.
SetStateShared(serviceId, st) ==
    [s \in Services |-> st]

\* The map after storing st for serviceId (Map.set, or mutation of the stored object).
SetState(serviceId, st) ==
    [s \in DOMAIN states \cup {serviceId} |->
        IF s = serviceId THEN st ELSE states[s]]

\* Variant: the reset is attempted only once MORE than resetTimeout has elapsed.
shouldAttemptResetStrict(state) ==
    IF state.lastFailure = NoDate
    THEN FALSE
    ELSE now - state.lastFailure[1] > ResetTimeout

\* Variant: an open breaker never comes up for trial.
shouldAttemptResetNever(state) == FALSE

shouldAttemptReset(state) ==
    IF state.lastFailure = NoDate
    THEN FALSE
    ELSE now - state.lastFailure[1] >= ResetTimeout

\* Variant: the gate lets every request through.
checkServiceThrowsNever(state) == FALSE

\* checkService throws ServiceUnavailableException exactly in this case.
checkServiceThrows(state) ==
    state.status = "OPEN" /\ ~shouldAttemptReset(state)

\* Variant: any breaker whose last failure is old enough is put on trial,
\* whatever its status.
checkServiceStateTriesClosed(state) ==
    IF shouldAttemptReset(state)
    THEN [state EXCEPT !.status = "HALF_OPEN"]
    ELSE state

\* The state checkService leaves behind.
checkServiceState(state) ==
    IF state.status = "OPEN" /\ shouldAttemptReset(state)
    THEN [state EXCEPT !.status = "HALF_OPEN"]
    ELSE state

\* Variant: a reset that closes the breaker but keeps the failure count.
resetStateKeepsCount == [failures |-> FailureThreshold, lastFailure |-> NoDate,
                         status |-> "CLOSED"]

resetState == FreshState

\* Variant: a half-open success closes the breaker without clearing its counters.
recordSuccessStateKeepsCount(state) ==
    IF state.status = "HALF_OPEN" THEN [state EXCEPT !.status = "CLOSED"] ELSE state

\* Variant: every recorded success clears the breaker, whatever its status.
recordSuccessStateAlwaysResets(state) == resetState

recordSuccessState(state) ==
    IF state.status = "HALF_OPEN" THEN resetState ELSE state

\* recordError as a read-modify-write that loses updates: every call writes
\* back the count it would have read on a fresh breaker.
recordErrorStateLost(state) ==
    [failures |-> 1, lastFailure |-> <<now>>,
     status |-> IF 1 >= FailureThreshold THEN "OPEN" ELSE state.status]

\* Variant: the breaker opens only once the count EXCEEDS the threshold.
recordErrorStateLate(state) ==
    LET failures == state.failures + 1
    IN  [failures |-> failures,
         lastFailure |-> <<now>>,
         status |-> IF failures > FailureThreshold THEN "OPEN" ELSE state.status]

\* Variant: a failure recorded on an open breaker does not restart the clock.
recordErrorStateKeepsClock(state) ==
    LET failures == state.failures + 1
    IN  [failures |-> failures,
         lastFailure |-> IF state.status = "CLOSED" THEN <<now>> ELSE state.lastFailure,
         status |-> IF failures >= FailureThreshold THEN "OPEN" ELSE state.status]

recordErrorState(state) ==
    LET failures == state.failures + 1
    IN  [failures |-> failures,
         lastFailure |-> <<now>>,
         status |-> IF failures >= FailureThreshold THEN "OPEN" ELSE state.status]

\* History bookkeeping shared by every breaker call.
Called(op, serviceId, res) ==
    lastCall' = [op |-> op, svc |-> serviceId, res |-> res,
                 pre |-> getServiceState(serviceId), at |-> now,
                 prev |-> [op |-> lastCall.op, svc |-> lastCall.svc,
                           status |-> lastCall.pre.status]]

NoCall == [op |-> "none", svc |-> "none", res |-> "none", pre |-> FreshState,
           at |-> 0, prev |-> [op |-> "none", svc |-> "none", status |-> "CLOSED"]]

\* A breaker that is fresh: no recordError counted, nothing else done to it.
CleanRun(lastErr) == [n |-> 0, clean |-> TRUE, lastErr |-> lastErr]

CheckService(serviceId) ==
    LET state == getServiceState(serviceId)
        after == checkServiceState(state)
    IN  /\ states' = SetState(serviceId, after)
        /\ Called("checkService", serviceId,
                  IF checkServiceThrows(state) THEN "Unavailable" ELSE "ok")
        /\ run' = [run EXCEPT ![serviceId].clean = @ /\ after = state]
        /\ UNCHANGED <<now, otherThanCB>>

RecordSuccess(serviceId) ==
    LET state == getServiceState(serviceId)
    IN  /\ states' = SetState(serviceId, recordSuccessState(state))
        /\ Called("recordSuccess", serviceId, "ok")
        /\ run' = [run EXCEPT ![serviceId] =
                      IF state.status = "HALF_OPEN"
                      THEN CleanRun(@.lastErr)
                      ELSE [@ EXCEPT !.clean = FALSE]]
        /\ UNCHANGED <<now, otherThanCB>>

RecordError(serviceId) ==
    LET state == getServiceState(serviceId)
    IN  /\ state.failures < MaxFailures
        /\ states' = SetState(serviceId, recordErrorState(state))
        /\ Called("recordError", serviceId, "ok")
        /\ run' = [run EXCEPT ![serviceId].n = @ + 1,
                              ![serviceId].lastErr = <<now>>]
        /\ UNCHANGED <<now, otherThanCB>>

GetServiceStatus(serviceId) ==
    LET state == getServiceState(serviceId)
    IN  /\ states' = SetState(serviceId, state)
        /\ Called("getServiceStatus", serviceId, state.status)
        /\ UNCHANGED <<run, now, otherThanCB>>

\* reset(id) and resetAll(): the administrative hooks the tests call
\* (their bodies are not in the source tree; modelled from the design text).
Reset(serviceId) ==
    /\ states' = SetState(serviceId, resetState)
    /\ Called("reset", serviceId, "ok")
    /\ run' = [run EXCEPT ![serviceId] = CleanRun(@.lastErr)]
    /\ UNCHANGED <<now, otherThanCB>>

ResetAll ==
    /\ states' = [s \in DOMAIN states |-> resetState]
    /\ lastCall' = [op |-> "resetAll", svc |-> "all", res |-> "ok",
                    pre |-> FreshState, at |-> now,
                    prev |-> [op |-> lastCall.op, svc |-> lastCall.svc,
                              status |-> lastCall.pre.status]]
    /\ run' = [s \in Services |-> CleanRun(run[s].lastErr)]
    /\ UNCHANGED <<now, otherThanCB>>

\* ---------------------------------------------------------------- Redis
\* A key that is not in the keyspace reads as count 0.
NoExpiry == 0 - 1

\* Variant: a counter that has reached the limit is not incremented further.
IncrUpToLimit(store, key) ==
    [k \in DOMAIN store \cup {key} |->
        IF k # key THEN store[k]
        ELSE IF key \in DOMAIN store
        THEN [store[key] EXCEPT !.count = IF @ >= Points THEN @ ELSE @ + 1]
        ELSE [count |-> 1, ttl |-> NoExpiry]]

\* INCR key: a missing key is created at 1 without an expiry.
Incr(store, key) ==
    [k \in DOMAIN store \cup {key} |->
        IF k # key THEN store[k]
        ELSE IF key \in DOMAIN store
             THEN [store[key] EXCEPT !.count = @ + 1]
             ELSE [count |-> 1, ttl |-> NoExpiry]]

\* EXPIRE key seconds: no effect on a missing key.
Expire(store, key, seconds) ==
    [k \in DOMAIN store |->
        IF k = key THEN [store[k] EXCEPT !.ttl = seconds] ELSE store[k]]

\* DEL key
Del(store, key) == [k \in DOMAIN store \ {key} |-> store[k]]

\* The keys whose time to live runs out with the next second.
Expiring(store) == {k \in DOMAIN store : store[k].ttl = 1}

\* One second later: expiries count down, expired keys are gone.
AfterSecond(store) ==
    [k \in DOMAIN store \ Expiring(store) |->
        IF store[k].ttl = NoExpiry THEN store[k]
        ELSE [store[k] EXCEPT !.ttl = @ - 1]]

\* Time passes; nothing in the breaker runs on a timer, Redis expires its keys.
Tick ==
    /\ now < MaxTime
    /\ now' = now + 1
    /\ redis' = AfterSecond(redis)
    /\ window' = [k \in DOMAIN window |->
                     IF k \in Expiring(redis)
                     THEN [n |-> 0, gone |-> "expired", setAt |-> NoDate,
                           full |-> window[k].n > Points]
                     ELSE window[k]]
    /\ UNCHANGED <<states, lastCall, run, lbVars, rlOut, reqOut>>

CBInit ==
    /\ states = [s \in {} |-> FreshState]
    /\ now = 0
    /\ lastCall = NoCall
    /\ run = [s \in Services |-> CleanRun(NoDate)]


\* ---------------------------------------------------------- route index
\* The endpoint URLs each service is registered with, in declaration order.
Urls == [svcA |-> <<"a1", "a2", "a3">>, svcB |-> <<"b1">>]
AllUrls == {"a1", "a2", "a3", "b1"}

\* The Map is the sequence of its values in insertion order; the key of a value
\* is its serviceId.
HasRoute(index, serviceId) == \E i \in 1..Len(index) : index[i].serviceId = serviceId
RouteGet(index, serviceId) ==
    index[CHOOSE i \in 1..Len(index) : index[i].serviceId = serviceId]

\* Strings that are matched character by character are tuples of characters.
Patterns == [svcA |-> <<"/", "a", "/", "*">>, svcB |-> <<"/", "b">>]

\* A route document with the given isActive flags, one per endpoint it registers,
\* at the version createRoute stores (version: 1).
RouteDoc(serviceId, flags, status) ==
    [serviceId |-> serviceId,
     version |-> 1,
     pathPattern |-> Patterns[serviceId],
     endpoints |-> [i \in 1..Len(flags) |->
                       [url |-> Urls[serviceId][i], isActive |-> flags[i]]],
     status |-> status]

RouteOf(serviceId, flags) == RouteDoc(serviceId, flags, "ACTIVE")

\* routeModel.find({status: ServiceStatus.ACTIVE})
FindActive(collection) == SelectSeq(collection, LAMBDA r : r.status = "ACTIVE")

\* TEST_MODE is off unless configured; in test mode the listed services are refused.
isTestMode == FALSE
unavailableServicesInTest == {"auth", "rate-limited", "slow-service", "circuit-breaker"}

\* route.endpoints.filter((e) => e.isActive).map((e) => e.url)
ActiveUrls(route) ==
    LET act == SelectSeq(route.endpoints, LAMBDA e : e.isActive)
    IN  [i \in 1..Len(act) |-> act[i].url]

\* getActiveEndpoints up to its first await: the error it already rejects with,
\* or the URLs it sends a liveness probe to.
getActiveEndpointsSync(serviceId) ==
    IF ~HasRoute(routes, serviceId)
    THEN [err |-> "NotFound", cand |-> <<>>]
    ELSE LET activeEndpoints == ActiveUrls(RouteGet(routes, serviceId))
         IN  IF Len(activeEndpoints) = 0
             THEN [err |-> "Unavailable", cand |-> <<>>]
             ELSE IF isTestMode /\ serviceId \in unavailableServicesInTest
             THEN [err |-> "Unavailable", cand |-> <<>>]
             ELSE [err |-> "none", cand |-> activeEndpoints]

\* The probed URLs that answered 200, in order (availableEndpoints.filter(Boolean)).
validEndpoints(cand) == SelectSeq(cand, LAMBDA u : u \in alive)

\* What the awaited getActiveEndpoints call settles with.
getActiveEndpointsResult(pend) ==
    IF pend.err # "none"
    THEN [err |-> pend.err, urls |-> <<>>]
    ELSE IF Len(validEndpoints(pend.cand)) = 0
    THEN [err |-> "Unavailable", urls |-> <<>>]
    ELSE [err |-> "none", urls |-> validEndpoints(pend.cand)]

\* -------------------------------------------------------- load balancer
\* endpoints?.index || 0
currentIndexOf(serviceId) ==
    IF serviceId \in DOMAIN serviceEndpoints
    THEN serviceEndpoints[serviceId].index
    ELSE 0

\* Variant: every call starts over at the first URL of the fresh list.
selectIndexRestart(currentIndex, urls) == 0

\* Variant: the kept index is not reduced modulo the new list length.
selectIndexUnclamped(currentIndex, urls) == currentIndex

\* index: currentIndex % urls.length
selectIndex(currentIndex, urls) == currentIndex % Len(urls)

\* Variant: the cursor is not advanced after a selection.
advanceIndexStuck(index, urls) == index

\* endpoints.index = (endpoints.index + 1) % endpoints.urls.length
advanceIndex(index, urls) == (index + 1) % Len(urls)

\* endpoints.urls[endpoints.index] (0-based; undefined beyond the end)
UrlAt(urls, index) ==
    IF index + 1 \in 1..Len(urls) THEN urls[index + 1] ELSE "undefined"

SetCursor(serviceId, cursor) ==
    [s \in DOMAIN serviceEndpoints \cup {serviceId} |->
        IF s = serviceId THEN cursor ELSE serviceEndpoints[s]]

\* An object as the function from its keys to their values; obj[key] = value.
Put(obj, key, value) ==
    [k \in DOMAIN obj \cup {key} |-> IF k = key THEN value ELSE obj[k]]

\* No checkHealth call has returned yet.
NoHealth == [status |-> "none", info |-> <<>>, details |-> <<>>]

\* The Health Monitor before its first tick: no tick in progress, no failure
\* counted, nothing stored and nothing sent. `health` is what checkHealth
\* resolved with in the tick made last, and the fields from `returned` on are
\* history of that tick.
NoTicks ==
    [pc |-> "idle", ticks |-> 0, health |-> <<>>,
     healthFailures |-> [s \in Services |-> 0],
     records |-> 0, lastRecord |-> <<>>, metrics |-> 0, lastMetric |-> <<>>,
     alerts |-> {},
     returned |-> FALSE, error |-> "none",
     before |-> [records |-> 0, metrics |-> 0,
                 healthFailures |-> [s \in Services |-> 0]],
     streak |-> [s \in Services |-> 0]]

IdleProc == [pc |-> "idle", op |-> "none", svc |-> "none", idx |-> 0,
             pend |-> [err |-> "none", cand |-> <<>>],
             key |-> "none", count |-> 0, ttl |-> 0,
             after |-> [gone |-> "never", full |-> FALSE],
             path |-> <<>>, found |-> [ok |-> TRUE, docs |-> <<>>],
             gate |-> "none", moved |-> FALSE, url |-> "none",
             client |-> [apiKey |-> "", ip |-> "none"],
             todo |-> <<>>, known |-> <<>>, info |-> <<>>, details |-> <<>>,
             hasDownServices |-> FALSE,
             dto |-> <<>>, existingRoute |-> FALSE, availableEndpoints |-> <<>>]

NoOut == [op |-> "none", svc |-> "none", idx |-> 0, err |-> "none", url |-> "none",
          urls |-> <<>>]

\* getServiceInstance up to `await this.routeService.getActiveEndpoints(serviceId)`.
GetServiceInstanceBegin(p, serviceId) ==
    /\ proc[p].pc = "idle"
    /\ proc' = [proc EXCEPT ![p] =
                  [IdleProc EXCEPT !.pc = "lbwait", !.op = "get", !.svc = serviceId,
                                   !.idx = currentIndexOf(serviceId),
                                   !.pend = getActiveEndpointsSync(serviceId)]]
    /\ UNCHANGED <<db, routes, alive, serviceEndpoints, lbOut, calls, created, healthOut, monitor, otherThanLB>>

\* It throws: the rejection of getActiveEndpoints, or its own Service Unavailable.
getServiceInstanceError(fetched) ==
    IF fetched.err # "none" THEN fetched.err
    ELSE IF Len(fetched.urls) = 0 THEN "Unavailable"
    ELSE "none"

\* Variant: the cursor entry is stored before the emptiness check.
getServiceInstanceCursorEager(serviceId, currentIndex, fetched) ==
    IF fetched.err = "NotFound"
    THEN serviceEndpoints
    ELSE IF getServiceInstanceError(fetched) # "none"
    THEN SetCursor(serviceId, [index |-> 0, urls |-> fetched.urls])
    ELSE LET index == selectIndex(currentIndex, fetched.urls)
         IN  SetCursor(serviceId, [index |-> advanceIndex(index, fetched.urls),
                                   urls |-> fetched.urls])

\* The cursor map the rest of getServiceInstance leaves behind.
getServiceInstanceCursor(serviceId, currentIndex, fetched) ==
    IF getServiceInstanceError(fetched) # "none"
    THEN serviceEndpoints
    ELSE LET index == selectIndex(currentIndex, fetched.urls)
         IN  SetCursor(serviceId, [index |-> advanceIndex(index, fetched.urls),
                                   urls |-> fetched.urls])

\* The URL it returns.
getServiceInstanceUrl(currentIndex, fetched) ==
    IF getServiceInstanceError(fetched) # "none"
    THEN "none"
    ELSE UrlAt(fetched.urls, selectIndex(currentIndex, fetched.urls))

\* getServiceInstance from the point where the awaited fetch settles to its return.
GetServiceInstanceSettles(p) ==
    /\ proc[p].pc = "lbwait"
    /\ proc[p].op = "get"
    /\ LET fetched == getActiveEndpointsResult(proc[p].pend)
           serviceId == proc[p].svc
       IN  /\ serviceEndpoints' =
                 getServiceInstanceCursor(serviceId, proc[p].idx, fetched)
           /\ lbOut' = [op |-> "get", svc |-> serviceId, idx |-> proc[p].idx,
                        err |-> getServiceInstanceError(fetched),
                        url |-> getServiceInstanceUrl(proc[p].idx, fetched),
                        urls |-> fetched.urls]
           /\ proc' = [proc EXCEPT ![p] = IdleProc]
    /\ UNCHANGED <<db, routes, alive, otherThanLB>>

GetServiceInstanceEnd(p) ==
    /\ GetServiceInstanceSettles(p)
    /\ UNCHANGED <<calls, created, healthOut, monitor>>

\* The same step, counted (for runs that number the calls made for a service).
GetServiceInstanceEndCounted(p) ==
    /\ proc[p].pc = "lbwait"
    /\ calls[proc[p].svc] < MaxCalls
    /\ GetServiceInstanceSettles(p)
    /\ calls' = [calls EXCEPT ![proc[p].svc] = @ + 1]
    /\ UNCHANGED <<created, healthOut, monitor>>

\* refreshEndpoints up to its await.
RefreshEndpointsBegin(p, serviceId) ==
    /\ proc[p].pc = "idle"
    /\ proc' = [proc EXCEPT ![p] =
                  [IdleProc EXCEPT !.pc = "lbwait", !.op = "refresh", !.svc = serviceId,
                                   !.pend = getActiveEndpointsSync(serviceId)]]
    /\ UNCHANGED <<db, routes, alive, serviceEndpoints, lbOut, calls, created, healthOut, monitor, otherThanLB>>

\* refreshEndpoints after the await: this.serviceEndpoints.set(serviceId, {index: 0, urls}).
RefreshEndpointsEnd(p) ==
    /\ proc[p].pc = "lbwait"
    /\ proc[p].op = "refresh"
    /\ LET fetched == getActiveEndpointsResult(proc[p].pend)
       IN  /\ serviceEndpoints' =
                 IF fetched.err # "none"
                 THEN serviceEndpoints
                 ELSE SetCursor(proc[p].svc, [index |-> 0, urls |-> fetched.urls])
           /\ lbOut' = [op |-> "refresh", svc |-> proc[p].svc, idx |-> 0,
                        err |-> fetched.err, url |-> "none", urls |-> fetched.urls]
           /\ proc' = [proc EXCEPT ![p] = IdleProc]
    /\ UNCHANGED <<db, routes, alive, calls, created, healthOut, monitor, otherThanLB>>

ClearEndpoints(serviceId) ==
    /\ serviceId \in DOMAIN serviceEndpoints
    /\ serviceEndpoints' = [s \in DOMAIN serviceEndpoints \ {serviceId} |->
                               serviceEndpoints[s]]
    /\ UNCHANGED <<db, routes, alive, proc, lbOut, calls, created, healthOut, monitor, otherThanLB>>

ClearAllEndpoints ==
    /\ DOMAIN serviceEndpoints # {}
    /\ serviceEndpoints' = [s \in {} |-> [index |-> 0, urls |-> <<>>]]
    /\ UNCHANGED <<db, routes, alive, proc, lbOut, calls, created, healthOut, monitor, otherThanLB>>

\* An upstream endpoint starts or stops answering its /health probe.
EndpointFlips(url) ==
    /\ alive' = IF url \in alive THEN alive \ {url} ELSE alive \cup {url}
    /\ UNCHANGED <<db, routes, serviceEndpoints, proc, lbOut, calls, created, healthOut, monitor, otherThanLB>>

\* The live index as loadRoutes may have filled it: svcA registered with all or
\* some endpoints flagged active, svcB missing, inactive or active.
RouteConfigs ==
    {<<RouteOf("svcA", fa)>> : fa \in {<<TRUE, TRUE, TRUE>>, <<TRUE, FALSE, TRUE>>}}
    \cup {<<RouteOf("svcA", fa), RouteOf("svcB", fb)>> :
              fa \in {<<TRUE, TRUE, TRUE>>, <<TRUE, FALSE, TRUE>>},
              fb \in {<<TRUE>>, <<FALSE>>}}

LBInit ==
    /\ routes \in RouteConfigs
    /\ db = routes
    /\ alive \in SUBSET AllUrls
    /\ serviceEndpoints = [s \in {} |-> [index |-> 0, urls |-> <<>>]]
    /\ proc = [p \in Procs |-> IdleProc]
    /\ lbOut = NoOut
    /\ calls = [s \in Services |-> 0]
    /\ created = [s \in Services |-> 0]
    /\ healthOut = NoHealth
    /\ monitor = NoTicks

\* The same before any route is registered or loaded.
LBIdle ==
    /\ routes = <<>>
    /\ db = routes
    /\ alive = {}
    /\ serviceEndpoints = [s \in {} |-> [index |-> 0, urls |-> <<>>]]
    /\ proc = [p \in Procs |-> IdleProc]
    /\ lbOut = NoOut
    /\ calls = [s \in Services |-> 0]
    /\ created = [s \in Services |-> 0]
    /\ healthOut = NoHealth
    /\ monitor = NoTicks

\* --------------------------------------------------------- rate limiter
\* The requests' identities: the x-api-key header ("" when not sent) and the IP.
Clients == {[apiKey |-> "", ip |-> "ip1"],
            [apiKey |-> "keyA", ip |-> "ip1"],
            [apiKey |-> "keyA", ip |-> "ip2"]}

\* Variant: the API key is ignored, the counter is per IP.
getKeyIgnoresApiKey(request) == <<"ratelimit", request.ip>>

\* request.headers['x-api-key'] || request.ip, prefixed with "ratelimit:".
getKey(request) ==
    <<"ratelimit", IF request.apiKey # "" THEN request.apiKey ELSE request.ip>>

\* Two more identities: another IP without an API key, another API key.
MoreClients == {[apiKey |-> "", ip |-> "ip2"], [apiKey |-> "keyB", ip |-> "ip1"]}

Keys == {getKey(c) : c \in Clients \cup MoreClients}

defaultConfig == [points |-> Points, duration |-> Duration]

\* Variant: the request that reaches the limit is already rejected.
checkLimitThrowsAtLimit(currentCount, points) == currentCount >= points

\* Variant: the limit is never enforced.
checkLimitThrowsNever(currentCount, points) == FALSE

\* if (currentCount > points) throw new HttpException('Too Many Requests', 429)
checkLimitThrows(currentCount, points) == currentCount > points

\* Variant: the expiry is set by the call that reaches the limit.
firstInWindowAtLimit(currentCount) == currentCount = Points

\* if (currentCount === 1) await this.redis.expire(key, duration)
firstInWindow(currentCount) == currentCount = 1

Max(a, b) == IF a >= b THEN a ELSE b

\* The outcome of a checkLimit call: the headers it sets and whether it throws
\* (n and after are history: the call's number in its window, and how the window
\* before it ended).
CheckLimitOutcome(key, currentCount, ttl, config, n, after) ==
    [key |-> key, count |-> currentCount, ttl |-> ttl,
     err |-> IF checkLimitThrows(currentCount, config.points)
             THEN "TooManyRequests" ELSE "none",
     limit |-> config.points,
     remaining |-> Max(0, config.points - currentCount),
     reset |-> now + ttl,
     n |-> n,
     after |-> after]

NoLimitOut == [key |-> "none", count |-> 0, ttl |-> 0, err |-> "none", limit |-> 0,
               remaining |-> 0, reset |-> 0, n |-> 0,
               after |-> [gone |-> "never", full |-> FALSE]]

\* How the window before the current one of a key ended.
Before(key) == [gone |-> window[key].gone, full |-> window[key].full]

\* checkLimit up to the reply of multi.exec(): Redis runs INCR and TTL as one
\* unit. A call whose count is not 1 sets its headers and returns or throws.
CheckLimitMulti(p, request) ==
    LET key == getKey(request)
        store == Incr(redis, key)
        currentCount == store[key].count
    IN  /\ proc[p].pc = "idle"
        /\ currentCount <= MaxCount
        /\ redis' = store
        /\ window' = [window EXCEPT ![key].n = @ + 1]
        /\ IF firstInWindow(currentCount)
           THEN /\ proc' = [proc EXCEPT ![p] =
                              [IdleProc EXCEPT !.pc = "expire", !.op = "checkLimit",
                                               !.key = key, !.count = currentCount,
                                               !.ttl = store[key].ttl,
                                               !.after = Before(key)]]
                /\ UNCHANGED rlOut
           ELSE /\ rlOut' = CheckLimitOutcome(key, currentCount, store[key].ttl,
                                              defaultConfig, window[key].n + 1,
                                              Before(key))
                /\ UNCHANGED proc
        /\ UNCHANGED <<now, cbVars, db, routes, alive, serviceEndpoints, lbOut, calls, created, healthOut, monitor, reqOut>>

\* The first call of a window: await this.redis.expire(key, duration), then the
\* headers and the return.
CheckLimitExpire(p) ==
    /\ proc[p].pc = "expire"
    /\ redis' = Expire(redis, proc[p].key, defaultConfig.duration)
    /\ window' = [window EXCEPT ![proc[p].key].setAt =
                     IF proc[p].key \in DOMAIN redis THEN <<now>> ELSE @]
    /\ rlOut' = CheckLimitOutcome(proc[p].key, proc[p].count, proc[p].ttl,
                                  defaultConfig, 1, proc[p].after)
    /\ proc' = [proc EXCEPT ![p] = IdleProc]
    /\ UNCHANGED <<now, cbVars, db, routes, alive, serviceEndpoints, lbOut, calls, created, healthOut, monitor, reqOut>>

\* resetLimit(key): await this.redis.del(key)
ResetLimit(key) ==
    /\ key \in DOMAIN redis
    /\ redis' = Del(redis, key)
    /\ window' = [window EXCEPT ![key] = [n |-> 0, gone |-> "reset", setAt |-> NoDate,
                                          full |-> @.n > Points]]
    /\ UNCHANGED <<now, cbVars, lbVars, rlOut, reqOut>>

RLInit ==
    /\ redis = [k \in {} |-> [count |-> 0, ttl |-> NoExpiry]]
    /\ window = [k \in Keys |-> [n |-> 0, gone |-> "never", setAt |-> NoDate,
                                  full |-> FALSE]]
    /\ rlOut = NoLimitOut

\* -------------------------------------------------------------- gateway
\* Request paths, character by character: /a/x, /a/health and /bb.
Paths == {<<"/", "a", "/", "x">>,
          <<"/", "a", "/", "h", "e", "a", "l", "t", "h">>,
          <<"/", "b", "b">>}

\* What an upstream answers: an HTTP status, or NoResponse for a refused
\* connection or a timeout.
NoResponse == 0
Upstream == {NoResponse, 200, 204, 404, 500}

\* new RegExp(`^${regexPattern}($|\/)`).test(path), where the pattern has its
\* slashes escaped and each * replaced by [^/]*; i and j are the positions
\* reached in the path and in the pattern.
RECURSIVE MatchFrom(_, _, _, _)
MatchFrom(path, i, pattern, j) ==
    IF j > Len(pattern)
    THEN i > Len(path) \/ path[i] = "/"
    ELSE IF pattern[j] = "*"
    THEN \/ MatchFrom(path, i, pattern, j + 1)
         \/ /\ i <= Len(path)
            /\ path[i] # "/"
            /\ MatchFrom(path, i + 1, pattern, j)
    ELSE /\ i <= Len(path)
         /\ path[i] = pattern[j]
         /\ MatchFrom(path, i + 1, pattern, j + 1)

\* Variant: the regular expression without its ($|\/) tail, a plain prefix match.
RECURSIVE MatchFromLoose(_, _, _, _)
MatchFromLoose(path, i, pattern, j) ==
    IF j > Len(pattern)
    THEN TRUE
    ELSE IF pattern[j] = "*"
    THEN \/ MatchFromLoose(path, i, pattern, j + 1)
         \/ /\ i <= Len(path)
            /\ path[i] # "/"
            /\ MatchFromLoose(path, i + 1, pattern, j)
    ELSE /\ i <= Len(path)
         /\ path[i] = pattern[j]
         /\ MatchFromLoose(path, i + 1, pattern, j + 1)

matchPathLoose(path, pattern) == MatchFromLoose(path, 1, pattern, 1)

matchPath(path, pattern) == MatchFrom(path, 1, pattern, 1)

\* Variant: a path that matches nothing falls to the first route of the index.
MatchedServiceOrFirst(index, path) ==
    IF \E i \in 1..Len(index) : matchPath(path, index[i].pathPattern)
    THEN LET first == CHOOSE i \in 1..Len(index) :
                         /\ matchPath(path, index[i].pathPattern)
                         /\ \A k \in 1..(i - 1) : ~matchPath(path, index[k].pathPattern)
         IN  index[first].serviceId
    ELSE IF index # <<>> THEN index[1].serviceId
    ELSE "none"

\* getRouteForPath after its load: the first route of the index, in insertion
\* order, whose pattern matches; "none" for null.
MatchedService(index, path) ==
    IF \E i \in 1..Len(index) : matchPath(path, index[i].pathPattern)
    THEN LET first == CHOOSE i \in 1..Len(index) :
                         /\ matchPath(path, index[i].pathPattern)
                         /\ \A k \in 1..(i - 1) : ~matchPath(path, index[k].pathPattern)
         IN  index[first].serviceId
    ELSE "none"

\* request.path.replace(/^\/[^\/]+/, ''): the path without its first segment.
RECURSIVE DropSegment(_)
DropSegment(s) == IF s = <<>> \/ Head(s) = "/" THEN s ELSE DropSegment(Tail(s))

StripPrefix(path) ==
    IF Len(path) >= 2 /\ path[1] = "/" /\ path[2] # "/"
    THEN DropSegment(Tail(path))
    ELSE path

HealthSuffix == <<"/", "h", "e", "a", "l", "t", "h">>

\* path.endsWith('/health')
EndsWithHealth(path) ==
    /\ Len(path) >= Len(HealthSuffix)
    /\ SubSeq(path, Len(path) - Len(HealthSuffix) + 1, Len(path)) = HealthSuffix

\* Variant: a 404 of the upstream is passed through.
forwardRequestFailsOn5xx(path, status) ==
    \/ status = NoResponse
    \/ EndsWithHealth(StripPrefix(path)) /\ status # 200
    \/ status >= 500

\* forwardRequest throws: no response, a health path answered other than 200,
\* or a 404 or 5xx answer.
forwardRequestFails(path, status) ==
    \/ status = NoResponse
    \/ EndsWithHealth(StripPrefix(path)) /\ status # 200
    \/ status = 404
    \/ status >= 500

\* The answer of handleRequest: the HTTP status the client gets, the service
\* the path resolved to, the step that answered, and what the upstream had
\* answered if the request was forwarded.
NoAnswer == [status |-> 0, svc |-> "none", by |-> "none", upstream |-> NoResponse]

Answer(p, status, by) ==
    [status |-> status, svc |-> proc[p].svc, by |-> by, upstream |-> NoResponse]

\* handleRequest, first step: checkLimit up to the reply of multi.exec(). A
\* call over the limit ends the request with 429.
HandleRequestLimit(p, request, path) ==
    LET key == getKey(request)
        store == Incr(redis, key)
        currentCount == store[key].count
    IN  /\ currentCount <= MaxCount
        /\ redis' = store
        /\ window' = [window EXCEPT ![key].n = @ + 1]
        /\ IF firstInWindow(currentCount)
           THEN /\ proc' = [proc EXCEPT ![p] =
                              [IdleProc EXCEPT !.pc = "hExpire", !.op = "handleRequest",
                                               !.key = key, !.count = currentCount,
                                               !.path = path, !.svc = proc[p].svc]]
                /\ UNCHANGED reqOut
           ELSE IF checkLimitThrows(currentCount, defaultConfig.points)
           THEN /\ reqOut' = Answer(p, 429, "limit")
                /\ proc' = [proc EXCEPT ![p] = IdleProc]
           ELSE /\ proc' = [proc EXCEPT ![p] =
                              [IdleProc EXCEPT !.pc = "hFind", !.op = "handleRequest",
                                               !.key = key, !.path = path,
                                               !.svc = proc[p].svc]]
                /\ UNCHANGED reqOut
        /\ UNCHANGED <<now, cbVars, db, routes, alive, serviceEndpoints, lbOut, calls, created, healthOut, monitor, rlOut>>

\* handleRequest called directly.
HandleRequestCheckLimit(p, request, path) ==
    /\ proc[p].pc = "idle"
    /\ HandleRequestLimit(p, request, path)

\* The first request of a window: await this.redis.expire(key, duration).
HandleRequestExpire(p) ==
    /\ proc[p].pc = "hExpire"
    /\ redis' = Expire(redis, proc[p].key, defaultConfig.duration)
    /\ window' = [window EXCEPT ![proc[p].key].setAt =
                     IF proc[p].key \in DOMAIN redis THEN <<now>> ELSE @]
    /\ IF checkLimitThrows(proc[p].count, defaultConfig.points)
       THEN /\ reqOut' = Answer(p, 429, "limit")
            /\ proc' = [proc EXCEPT ![p] = IdleProc]
       ELSE /\ proc' = [proc EXCEPT ![p].pc = "hFind", ![p].count = 0]
            /\ UNCHANGED reqOut
    /\ UNCHANGED <<now, cbVars, db, routes, alive, serviceEndpoints, lbOut, calls, created, healthOut, monitor, rlOut>>

\* getRouteForPath -> loadRoutes: routeModel.find answers with the ACTIVE
\* documents, or fails.
HandleRequestFind(p, ok) ==
    /\ proc[p].pc = "hFind"
    /\ proc' = [proc EXCEPT ![p].pc = "hLoad",
                            ![p].found = [ok |-> ok,
                                          docs |-> IF ok THEN FindActive(db) ELSE <<>>]]
    /\ UNCHANGED <<now, cbVars, db, routes, alive, serviceEndpoints, lbOut, calls, created, healthOut, monitor,
                   rlVars, reqOut>>

\* loadRoutes replaces the index (a failed load keeps it), and getRouteForPath
\* returns the first match.
HandleRequestLoad(p) ==
    /\ proc[p].pc = "hLoad"
    /\ LET index == IF proc[p].found.ok THEN proc[p].found.docs ELSE routes
       IN  /\ routes' = index
           /\ proc' = [proc EXCEPT ![p].pc = "hGate",
                                   ![p].found = IdleProc.found,
                                   ![p].svc = MatchedService(index, proc[p].path)]
    /\ UNCHANGED <<now, cbVars, db, alive, serviceEndpoints, lbOut, calls, created, healthOut, monitor, rlVars, reqOut>>

\* No route: 404. Otherwise checkService(route.serviceId): 503 while the
\* breaker rejects.
HandleRequestGate(p) ==
    /\ proc[p].pc = "hGate"
    /\ IF proc[p].svc = "none"
       THEN /\ reqOut' = Answer(p, 404, "route")
            /\ proc' = [proc EXCEPT ![p] = IdleProc]
            /\ UNCHANGED <<states, run>>
       ELSE LET state == getServiceState(proc[p].svc)
                after == checkServiceState(state)
            IN  /\ states' = SetState(proc[p].svc, after)
                /\ run' = [run EXCEPT ![proc[p].svc].clean = @ /\ after = state]
                /\ IF checkServiceThrows(state)
                   THEN /\ reqOut' = Answer(p, 503, "gate")
                        /\ proc' = [proc EXCEPT ![p] = IdleProc]
                   ELSE /\ proc' = [proc EXCEPT ![p].pc = "hSelect",
                                                ![p].gate = after.status,
                                                ![p].moved = (state.status # after.status)]
                        /\ UNCHANGED reqOut
    /\ UNCHANGED <<now, lastCall, db, routes, alive, serviceEndpoints, lbOut, calls, created, healthOut, monitor, rlVars>>

\* getServiceInstance(route.serviceId) up to its await.
HandleRequestSelect(p) ==
    /\ proc[p].pc = "hSelect"
    /\ proc' = [proc EXCEPT ![p].pc = "hProbe",
                            ![p].idx = currentIndexOf(proc[p].svc),
                            ![p].pend = getActiveEndpointsSync(proc[p].svc)]
    /\ UNCHANGED <<now, cbVars, db, routes, alive, serviceEndpoints, lbOut, calls, created, healthOut, monitor, rlVars, reqOut>>

\* Variant: a failed endpoint selection is recorded as a failure of the service.
selectionFailureStatesCounted(serviceId) ==
    SetState(serviceId, recordErrorState(getServiceState(serviceId)))

\* The breaker states after the catch around getServiceInstance: it logs and
\* throws Unavailable, and records nothing.
selectionFailureStates(serviceId) == states

\* getServiceInstance after its await; any failure of it is answered with 503.
HandleRequestSelected(p) ==
    /\ proc[p].pc = "hProbe"
    /\ LET fetched == getActiveEndpointsResult(proc[p].pend)
       IN  /\ serviceEndpoints' =
                 getServiceInstanceCursor(proc[p].svc, proc[p].idx, fetched)
           /\ IF getServiceInstanceError(fetched) # "none"
              THEN /\ reqOut' = Answer(p, 503, "select")
                   /\ proc' = [proc EXCEPT ![p] = IdleProc]
                   /\ states' = selectionFailureStates(proc[p].svc)
              ELSE /\ proc' = [proc EXCEPT
                                 ![p].pc = "hForward",
                                 ![p].idx = 0,
                                 ![p].pend = IdleProc.pend,
                                 ![p].url = getServiceInstanceUrl(proc[p].idx, fetched)]
                   /\ UNCHANGED <<reqOut, states>>
    /\ UNCHANGED <<now, lastCall, run, db, routes, alive, lbOut, calls, created, healthOut, monitor, rlVars>>

\* The upstream answers (or not); recordSuccess and the response, or recordError
\* and 503.
HandleRequestForwarded(p, upstream) ==
    /\ proc[p].pc = "hForward"
    /\ LET state == getServiceState(proc[p].svc)
       IN  IF forwardRequestFails(proc[p].path, upstream)
           THEN /\ state.failures < MaxFailures
                /\ states' = SetState(proc[p].svc, recordErrorState(state))
                /\ run' = [run EXCEPT ![proc[p].svc].n = @ + 1,
                                      ![proc[p].svc].lastErr = <<now>>]
                /\ reqOut' = [Answer(p, 503, "forward") EXCEPT !.upstream = upstream]
           ELSE /\ states' = SetState(proc[p].svc, recordSuccessState(state))
                /\ run' = [run EXCEPT ![proc[p].svc] =
                              IF state.status = "HALF_OPEN"
                              THEN CleanRun(@.lastErr)
                              ELSE [@ EXCEPT !.clean = FALSE]]
                /\ reqOut' = [Answer(p, upstream, "forward") EXCEPT !.upstream = upstream]
    /\ proc' = [proc EXCEPT ![p] = IdleProc]
    /\ UNCHANGED <<now, lastCall, db, routes, alive, serviceEndpoints, lbOut, calls, created, healthOut, monitor, rlVars>>

\* GatewayController.handleRequest, to the reply of the find that its own
\* getRouteForPath -> loadRoutes sends.
ControllerFind(p, request, path, ok) ==
    /\ proc[p].pc = "idle"
    /\ proc' = [proc EXCEPT ![p] =
                  [IdleProc EXCEPT !.pc = "cLoad", !.op = "http", !.path = path,
                                   !.client = request,
                                   !.found = [ok |-> ok,
                                              docs |-> IF ok THEN FindActive(db)
                                                       ELSE <<>>]]]
    /\ UNCHANGED <<now, cbVars, db, routes, alive, serviceEndpoints, lbOut, calls, created, healthOut, monitor,
                   rlVars, reqOut>>

\* The controller's route check: 404 'Service not found' when no route
\* matches, otherwise it calls gatewayService.handleRequest(request).
ControllerLoad(p) ==
    /\ proc[p].pc = "cLoad"
    /\ LET index == IF proc[p].found.ok THEN proc[p].found.docs ELSE routes
           serviceId == MatchedService(index, proc[p].path)
       IN  /\ routes' = index
           /\ IF serviceId = "none"
              THEN /\ reqOut' = Answer(p, 404, "controller")
                   /\ proc' = [proc EXCEPT ![p] = IdleProc]
              ELSE /\ proc' = [proc EXCEPT ![p].pc = "cLimit",
                                           ![p].found = IdleProc.found,
                                           ![p].svc = serviceId]
                   /\ UNCHANGED reqOut
    /\ UNCHANGED <<now, cbVars, db, alive, serviceEndpoints, lbOut, calls, created, healthOut, monitor, rlVars>>

\* handleRequest called by the controller.
ControllerCheckLimit(p) ==
    /\ proc[p].pc = "cLimit"
    /\ HandleRequestLimit(p, proc[p].client, proc[p].path)

\* ---------------------------------------------------------- checkHealth
\* A serviceId character by character, and the path `/${route.serviceId}/health`.
ServiceIdChars == [svcA |-> <<"s", "v", "c", "A">>, svcB |-> <<"s", "v", "c", "B">>]

HealthPath(serviceId) == <<"/">> \o ServiceIdChars[serviceId] \o HealthSuffix

\* Variant: a service whose endpoint selection fails is not counted as down.
selectionFailureCountsNever(err) == FALSE

\* The outer catch of the loop body sets hasDownServices on any failure of
\* getServiceInstance.
selectionFailureCounts(err) == err # "none"

\* The loop of checkHealth at the top of an iteration, with `local` the locals
\* of the call: the next route's turn, or the return of the result when no
\* route is left.
CheckHealthLoop(p, local) ==
    IF local.todo = <<>>
    THEN /\ healthOut' = [status |-> IF local.hasDownServices THEN "degraded" ELSE "ok",
                          info |-> local.info, details |-> local.details,
                          routes |-> local.known]
         /\ proc' = [proc EXCEPT ![p] = IdleProc]
         /\ UNCHANGED monitor
    ELSE /\ proc' = [proc EXCEPT ![p] =
                        [local EXCEPT !.pc = "kSelect", !.idx = 0,
                                      !.pend = IdleProc.pend, !.url = "none"]]
         /\ UNCHANGED <<healthOut, monitor>>

\* checkHealth -> getRoutes -> loadRoutes, to the reply of routeModel.find.
CheckHealthFind(p, ok) ==
    /\ proc[p].pc = "idle"
    /\ proc' = [proc EXCEPT ![p] =
                  [IdleProc EXCEPT !.pc = "kLoad", !.op = "checkHealth",
                                   !.found = [ok |-> ok,
                                              docs |-> IF ok THEN FindActive(db)
                                                       ELSE <<>>]]]
    /\ UNCHANGED <<now, cbVars, db, routes, alive, serviceEndpoints, lbOut, calls,
                   created, healthOut, monitor, rlVars, reqOut>>

\* loadRoutes replaces the index (a failed load keeps it); getRoutes returns its
\* values, the gateway entry is written and the loop starts.
CheckHealthLoad(p) ==
    /\ proc[p].pc = "kLoad"
    /\ LET index == IF proc[p].found.ok THEN proc[p].found.docs ELSE routes
           ids == [i \in 1..Len(index) |-> index[i].serviceId]
       IN  /\ routes' = index
           /\ CheckHealthLoop(p, [proc[p] EXCEPT !.found = IdleProc.found,
                                                 !.known = ids, !.todo = ids,
                                                 !.info = Put(<<>>, "gateway", "up"),
                                                 !.details = Put(<<>>, "gateway", "up"),
                                                 !.hasDownServices = FALSE])
    /\ UNCHANGED <<now, cbVars, db, alive, serviceEndpoints, lbOut, calls, created,
                   rlVars, reqOut>>

\* getServiceInstance(route.serviceId) up to its await.
CheckHealthSelect(p) ==
    /\ proc[p].pc = "kSelect"
    /\ proc' = [proc EXCEPT ![p].pc = "kProbe",
                            ![p].idx = currentIndexOf(Head(proc[p].todo)),
                            ![p].pend = getActiveEndpointsSync(Head(proc[p].todo))]
    /\ UNCHANGED <<now, cbVars, db, routes, alive, serviceEndpoints, lbOut, calls,
                   created, healthOut, monitor, rlVars, reqOut>>

\* getServiceInstance after its await: a failure marks the service down and the
\* loop goes on, a selected endpoint is sent GET /health.
CheckHealthSelected(p) ==
    /\ proc[p].pc = "kProbe"
    /\ LET serviceId == Head(proc[p].todo)
           fetched == getActiveEndpointsResult(proc[p].pend)
           err == getServiceInstanceError(fetched)
       IN  /\ serviceEndpoints' =
                 getServiceInstanceCursor(serviceId, proc[p].idx, fetched)
           /\ IF err # "none"
              THEN CheckHealthLoop(p, [proc[p] EXCEPT
                        !.todo = Tail(@),
                        !.info = Put(@, serviceId, "down"),
                        !.details = Put(@, serviceId, "down"),
                        !.hasDownServices = @ \/ selectionFailureCounts(err)])
              ELSE /\ proc' = [proc EXCEPT
                                 ![p].pc = "kForward",
                                 ![p].pend = IdleProc.pend,
                                 ![p].url = getServiceInstanceUrl(proc[p].idx, fetched)]
                   /\ UNCHANGED <<healthOut, monitor>>
    /\ UNCHANGED <<now, cbVars, db, routes, alive, lbOut, calls, created, rlVars, reqOut>>

\* Variant: the outcome of a health probe is recorded on the service's breaker.
healthProbeStatesRecorded(serviceId, failed) ==
    SetState(serviceId, IF failed THEN recordErrorState(getServiceState(serviceId))
                        ELSE recordSuccessState(getServiceState(serviceId)))

\* The breaker states after a health probe: the try and the catch around the
\* forward write info and details only.
healthProbeStates(serviceId, failed) == states

\* forwardRequest({method: 'GET', path: `/${serviceId}/health`}, serviceUrl)
\* settles: the service is up if it did not throw, down if it did.
CheckHealthForwarded(p, upstream) ==
    /\ proc[p].pc = "kForward"
    /\ LET serviceId == Head(proc[p].todo)
           entry == IF forwardRequestFails(HealthPath(serviceId), upstream)
                    THEN "down" ELSE "up"
       IN  /\ CheckHealthLoop(p, [proc[p] EXCEPT
                 !.todo = Tail(@),
                 !.info = Put(@, serviceId, entry),
                 !.details = Put(@, serviceId, entry),
                 !.hasDownServices = @ \/ entry = "down"])
           /\ states' = healthProbeStates(serviceId, entry = "down")
    /\ UNCHANGED <<now, lastCall, run, db, routes, alive, serviceEndpoints, lbOut, calls,
                   created, rlVars, reqOut>>

\* The routes checkHealth runs over: none, one that is not ACTIVE, or svcA and
\* svcB, svcA with or without an endpoint flagged active.
HealthDbs ==
    {<<>>,
     <<RouteDoc("svcB", <<TRUE>>, "INACTIVE")>>,
     <<RouteOf("svcA", <<TRUE, FALSE>>), RouteOf("svcB", <<TRUE>>)>>,
     <<RouteOf("svcA", <<FALSE, FALSE>>), RouteOf("svcB", <<TRUE>>)>>}

HealthInit ==
    /\ db \in HealthDbs
    /\ routes = <<>>
    /\ alive \in SUBSET {"a1", "b1"}
    /\ serviceEndpoints = [s \in {} |-> [index |-> 0, urls |-> <<>>]]
    /\ proc = [p \in Procs |-> IdleProc]
    /\ lbOut = NoOut
    /\ calls = [s \in Services |-> 0]
    /\ created = [s \in Services |-> 0]
    /\ healthOut = NoHealth
    /\ monitor = NoTicks

\* The durable collection: svcB registered but not active, svcA active with two
\* endpoints, the second of them flagged inactive.
DbRoutes == <<RouteDoc("svcB", <<TRUE>>, "INACTIVE"), RouteOf("svcA", <<TRUE, FALSE>>)>>

\* The identities the gateway's requests come with.
GatewayClients == {c \in Clients : c.apiKey = ""}

\* The gateway after construction: the index is empty until a load completes.
GWInit ==
    /\ db = DbRoutes
    /\ routes = <<>>
    /\ alive = {"a1", "a2", "b1"}
    /\ serviceEndpoints = [s \in {} |-> [index |-> 0, urls |-> <<>>]]
    /\ proc = [p \in Procs |-> IdleProc]
    /\ lbOut = NoOut
    /\ calls = [s \in Services |-> 0]
    /\ created = [s \in Services |-> 0]
    /\ healthOut = NoHealth
    /\ monitor = NoTicks

\* ------------------------------------------------------- health monitor
\* The number of consecutive unhealthy checks from which a service is alerted on.
alertThreshold == 3

\* The most ticks of the Health Monitor.
MaxTicks == 6

\* What checkHealth() of the GatewayService modelled above resolves with:
\* {status, info, details}.
InfoResults ==
    {[status |-> st, info |-> "info", details |-> "details"] :
        st \in {"ok", "degraded"}}

\* What checkHealth() of the other GatewayService of the sources resolves
\* with: {gateway: 'healthy', services: {serviceId: {status}}, timestamp}, the
\* status of a service being 'healthy' or 'unhealthy'.
ServicesResults ==
    {[gateway |-> "healthy", services |-> sv] :
        sv \in [Services -> {"healthy", "unhealthy"}]}

\* const health = await this.gatewayService.checkHealth()
HealthResults == InfoResults \cup ServicesResults

\* health.services is an object (and not undefined).
hasServices(health) == "services" \in DOMAIN health

\* Object.values(health.services).filter((s) => s.status === 'healthy').length
healthyServices(health) ==
    Cardinality({s \in DOMAIN health.services : health.services[s] = "healthy"})

\* The document healthStatusModel.create is called with (response time and
\* uptime left out).
HealthRecord(health) ==
    [gateway |-> health.gateway, services |-> health.services,
     totalServices |-> Cardinality(DOMAIN health.services),
     healthyServices |-> healthyServices(health)]

\* The argument of metricsService.recordHealthCheck.
HealthMetric(health) ==
    [status |-> health.gateway,
     totalServices |-> Cardinality(DOMAIN health.services),
     healthyServices |-> healthyServices(health)]

\* Variant: the alert goes out once, when the count reaches the threshold.
alertDueOnce(failures) == failures = alertThreshold

\* failures >= this.alertThreshold
alertDue(failures) == failures >= alertThreshold

\* Variant: the count of a service is kept when it reports healthy.
failuresAfterKept(health, healthFailures, s) ==
    IF health.services[s] = "unhealthy" THEN healthFailures[s] + 1
    ELSE healthFailures[s]

\* handleHealthAlerts, the count of one service: one more for 'unhealthy',
\* deleted (read as 0) for anything else.
failuresAfter(health, healthFailures, s) ==
    IF health.services[s] = "unhealthy" THEN healthFailures[s] + 1 ELSE 0

\* The services sendAlert is called for in handleHealthAlerts.
alertedServices(health, healthFailures) ==
    {s \in DOMAIN health.services :
        /\ health.services[s] = "unhealthy"
        /\ alertDue(failuresAfter(health, healthFailures, s))}

\* The tick is over: checkServicesHealth resolves, with `error` what its catch
\* block logged ("none" for a tick that ran to its end).
TickOver(m, error) == [m EXCEPT !.pc = "idle", !.error = error]

\* The timer fires: checkServicesHealth calls gatewayService.checkHealth().
CheckServicesHealthBegin ==
    /\ monitor.pc = "idle"
    /\ monitor.ticks < MaxTicks
    /\ monitor' = [monitor EXCEPT
                     !.pc = "checkHealth", !.ticks = @ + 1, !.alerts = {},
                     !.health = <<>>,
                     !.returned = FALSE, !.error = "none",
                     !.before = [records |-> monitor.records,
                                 metrics |-> monitor.metrics,
                                 healthFailures |-> monitor.healthFailures]]
    /\ UNCHANGED <<cbVars, db, routes, alive, serviceEndpoints, proc, lbOut, calls,
                   created, healthOut, rlVars, reqOut>>

\* checkHealth resolves with `health` and storeHealthStatus starts: reading
\* the values of health.services throws a TypeError if there is no such
\* field, which the catch block of checkServicesHealth logs; otherwise
\* healthStatusModel.create is called.
CheckServicesHealthChecked(health) ==
    /\ monitor.pc = "checkHealth"
    /\ LET m == [monitor EXCEPT !.returned = TRUE, !.health = health]
       IN  monitor' = IF ~hasServices(health)
                      THEN TickOver(m, "TypeError")
                      ELSE [m EXCEPT !.pc = "create"]
    /\ UNCHANGED <<cbVars, db, routes, alive, serviceEndpoints, proc, lbOut, calls,
                   created, healthOut, rlVars, reqOut>>

\* healthStatusModel.create settles: the Health Record is stored, or the
\* store refused and the tick is over.
CheckServicesHealthCreated(ok) ==
    /\ monitor.pc = "create"
    /\ monitor' = IF ok
                  THEN [monitor EXCEPT !.pc = "save", !.records = @ + 1,
                                       !.lastRecord = HealthRecord(monitor.health)]
                  ELSE TickOver(monitor, "create")
    /\ UNCHANGED <<cbVars, db, routes, alive, serviceEndpoints, proc, lbOut, calls,
                   created, healthOut, rlVars, reqOut>>

\* healthStatus.save() settles. If it failed the tick is over; otherwise
\* handleHealthAlerts counts and alerts (sendAlert only logs and does not
\* fail), updateMetrics records the check, and the tick is over.
CheckServicesHealthSaved(ok) ==
    /\ monitor.pc = "save"
    /\ LET health == monitor.health
       IN  monitor' =
              IF ~ok
              THEN TickOver(monitor, "save")
              ELSE TickOver(
                     [monitor EXCEPT
                        !.healthFailures =
                            [s \in Services |->
                                IF s \in DOMAIN health.services
                                THEN failuresAfter(health, monitor.healthFailures, s)
                                ELSE monitor.healthFailures[s]],
                        !.alerts = alertedServices(health, monitor.healthFailures),
                        !.metrics = @ + 1,
                        !.lastMetric = HealthMetric(health),
                        !.streak =
                            [s \in Services |->
                                IF health.services[s] = "unhealthy"
                                THEN monitor.streak[s] + 1 ELSE 0]],
                     "none")
    /\ UNCHANGED <<cbVars, db, routes, alive, serviceEndpoints, proc, lbOut, calls,
                   created, healthOut, rlVars, reqOut>>

\* ---------------------------------------------------------- createRoute
\* The most endpoints a submitted route has.
MaxEndpoints == 3

\* The bodies of POST /routes: a serviceId, the isActive flags of its endpoints
\* in the order submitted, and a status.
CreateRouteDtos ==
    {[serviceId |-> s, flags |-> f, status |-> st] :
        s \in Services,
        f \in UNION {[1..n -> BOOLEAN] : n \in 1..MaxEndpoints},
        st \in {"ACTIVE", "INACTIVE"}}

SubmittedDtos ==
    {dto \in CreateRouteDtos :
        /\ Len(dto.flags) <= Len(Urls[dto.serviceId])
        /\ dto.status = "INACTIVE" => dto.flags = <<TRUE>>}

\* dto.endpoints.filter((endpoint) => endpoint.isActive): the URLs probed, in order.
ProbedUrls(dto) == ActiveUrls(RouteDoc(dto.serviceId, dto.flags, dto.status))

\* Variant: every probe counts as answered with 200.
ProbeResultsAllUp(dto) == [i \in 1..Len(ProbedUrls(dto)) |-> TRUE]

\* What Promise.all settles with: one boolean per probed URL, true for a 200.
ProbeResults(dto) == [i \in 1..Len(ProbedUrls(dto)) |-> ProbedUrls(dto)[i] \in alive]

\* !availableEndpoints.some(Boolean)
noneAvailable(availableEndpoints) ==
    ~\E i \in 1..Len(availableEndpoints) : availableEndpoints[i]

\* endpoint.isActive && availableEndpoints[index], index being the position in
\* dto.endpoints: "undefined" beyond the end of availableEndpoints.
mergedIsActive(dto, availableEndpoints, i) ==
    IF ~dto.flags[i] THEN "false"
    ELSE IF i <= Len(availableEndpoints)
    THEN (IF availableEndpoints[i] THEN "true" ELSE "false")
    ELSE "undefined"

\* dto.endpoints.filter((endpoint) => endpoint.isActive).length === 0
noActiveEndpoints(dto, availableEndpoints) ==
    ~\E i \in 1..Len(dto.flags) : mergedIsActive(dto, availableEndpoints, i) = "true"

\* The isActive a document is stored with: the schema's default, true, for undefined.
storedIsActive(v) == IF v = "undefined" THEN TRUE ELSE v = "true"

\* The document routeModel.create is called with, as the schema stores it.
CreatedDoc(dto, availableEndpoints) ==
    RouteDoc(dto.serviceId,
             [i \in 1..Len(dto.flags) |->
                 storedIsActive(mergedIsActive(dto, availableEndpoints, i))],
             dto.status)

\* Variant: the collection has no unique index on serviceId.
duplicateKeyNever(collection, serviceId) == FALSE

\* The unique index on serviceId refuses a second document with the same value.
duplicateKey(collection, serviceId) == HasRoute(collection, serviceId)

\* this.routes.set(route.serviceId, route)
MapSet(index, route) ==
    IF HasRoute(index, route.serviceId)
    THEN [i \in 1..Len(index) |->
             IF index[i].serviceId = route.serviceId THEN route ELSE index[i]]
    ELSE Append(index, route)

\* createRoute to the reply of routeModel.findOne: an existing route is
\* answered with 400, in test mode a listed service with 503, otherwise the
\* submitted active endpoints are probed.
CreateRouteFindOne(p, dto) ==
    /\ proc[p].pc = "idle"
    /\ LET local == [IdleProc EXCEPT !.op = "createRoute", !.svc = dto.serviceId,
                                     !.dto = <<dto>>]
       IN  IF HasRoute(db, dto.serviceId)
           THEN /\ reqOut' = [status |-> 400, svc |-> dto.serviceId,
                              by |-> "createRoute", upstream |-> NoResponse]
                /\ UNCHANGED proc
           ELSE IF isTestMode /\ dto.serviceId \in unavailableServicesInTest
           THEN /\ reqOut' = [status |-> 503, svc |-> dto.serviceId,
                              by |-> "createRoute", upstream |-> NoResponse]
                /\ UNCHANGED proc
           ELSE /\ proc' = [proc EXCEPT ![p] = [local EXCEPT !.pc = "rProbe"]]
                /\ UNCHANGED reqOut
    /\ UNCHANGED <<now, cbVars, db, routes, alive, serviceEndpoints, lbOut, calls,
                   created, healthOut, monitor, rlVars>>

\* The probes settle: 503 if none answered 200 or no endpoint is left active,
\* otherwise routeModel.create is called with the merged flags.
CreateRouteProbed(p) ==
    /\ proc[p].pc = "rProbe"
    /\ LET dto == proc[p].dto[1]
           availableEndpoints == ProbeResults(dto)
       IN  IF \/ noneAvailable(availableEndpoints)
              \/ noActiveEndpoints(dto, availableEndpoints)
           THEN /\ reqOut' = Answer(p, 503, "createRoute")
                /\ proc' = [proc EXCEPT ![p] = IdleProc]
           ELSE /\ proc' = [proc EXCEPT ![p].pc = "rCreate",
                                        ![p].availableEndpoints = availableEndpoints]
                /\ UNCHANGED reqOut
    /\ UNCHANGED <<now, cbVars, db, routes, alive, serviceEndpoints, lbOut, calls,
                   created, healthOut, monitor, rlVars>>

\* The store executes the insert, or refuses it for the unique index (an error
\* that is not an HttpException: 500).
CreateRouteInsert(p) ==
    /\ proc[p].pc = "rCreate"
    /\ IF duplicateKey(db, proc[p].svc)
       THEN /\ reqOut' = Answer(p, 500, "createRoute")
            /\ proc' = [proc EXCEPT ![p] = IdleProc]
            /\ UNCHANGED db
       ELSE /\ db' = Append(db, CreatedDoc(proc[p].dto[1], proc[p].availableEndpoints))
            /\ proc' = [proc EXCEPT ![p].pc = "rSet"]
            /\ UNCHANGED reqOut
    /\ UNCHANGED <<now, cbVars, routes, alive, serviceEndpoints, lbOut, calls,
                   created, healthOut, monitor, rlVars>>

\* createRoute after routeModel.create: an ACTIVE route enters the live index,
\* and the route is returned (201).
CreateRouteSet(p) ==
    /\ proc[p].pc = "rSet"
    /\ LET route == CreatedDoc(proc[p].dto[1], proc[p].availableEndpoints)
       IN  routes' = IF route.status = "ACTIVE" THEN MapSet(routes, route) ELSE routes
    /\ created' = [created EXCEPT ![proc[p].svc] = @ + 1]
    /\ reqOut' = Answer(p, 201, "createRoute")
    /\ proc' = [proc EXCEPT ![p] = IdleProc]
    /\ UNCHANGED <<now, cbVars, db, alive, serviceEndpoints, lbOut, calls,
                   healthOut, monitor, rlVars>>

\* Variant: the index is cleared before the outcome of the find is known.
LoadedIndexCleared(found, index) == found.docs

\* Variant: the index can be seen while its refill has one route to go.
LoadedIndexHalfFilled(found, index) ==
    IF found.ok
    THEN SubSeq(found.docs, 1, IF Len(found.docs) > 1 THEN Len(found.docs) - 1 ELSE Len(found.docs))
    ELSE index

\* loadRoutes after routeModel.find settled: the index is cleared and refilled
\* with the documents found; a failed find leaves it as it was.
LoadedIndex(found, index) == IF found.ok THEN found.docs ELSE index

\* GET /routes -> getRoutes -> loadRoutes, to the reply of routeModel.find.
GetRoutesFind(p, ok) ==
    /\ proc[p].pc = "idle"
    /\ proc' = [proc EXCEPT ![p] =
                  [IdleProc EXCEPT !.pc = "gLoad", !.op = "getRoutes",
                                   !.found = [ok |-> ok,
                                              docs |-> IF ok THEN FindActive(db)
                                                       ELSE <<>>]]]
    /\ UNCHANGED <<now, cbVars, db, routes, alive, serviceEndpoints, lbOut, calls,
                   created, healthOut, monitor, rlVars, reqOut>>

\* loadRoutes replaces the index (a failed load keeps it) and getRoutes
\* returns its values.
GetRoutesLoad(p) ==
    /\ proc[p].pc = "gLoad"
    /\ routes' = LoadedIndex(proc[p].found, routes)
    /\ reqOut' = Answer(p, 200, "getRoutes")
    /\ proc' = [proc EXCEPT ![p] = IdleProc]
    /\ UNCHANGED <<now, cbVars, db, alive, serviceEndpoints, lbOut, calls, created,
                   healthOut, monitor, rlVars>>

\* ------------------------------------------------- route administration
\* this.routes.delete(serviceId)
MapDelete(index, serviceId) == SelectSeq(index, LAMBDA r : r.serviceId # serviceId)

\* The bodies of PUT /routes/:serviceId: a new status.
UpdateRouteDtos == {[status |-> st] : st \in {"ACTIVE", "INACTIVE", "MAINTENANCE"}}

\* { ...dto, version: { $inc: 1 }, updatedAt: new Date() }: the update document
\* names no update operator, so each of its keys is a field to set; the value
\* given for version is the object { $inc: 1 }.
updateDocument(dto) ==
    [status |-> [type |-> "string", value |-> dto.status],
     version |-> [type |-> "object", value |-> "{ $inc: 1 }"]]

\* The schema declares version a Number: a value to set at that path is cast
\* to a number, and one that is not a number fails the cast.
castsToNumber(v) == v.type = "number"

\* The document findOneAndUpdate leaves in the collection for an update that
\* passed the cast.
UpdatedDoc(route, update) ==
    [route EXCEPT !.status = update.status.value, !.version = update.version.value]

\* updateRoute to the reply of findOneAndUpdate. The query casts its update
\* against the schema before it is sent: the cast of version fails, and the
\* call rejects with an error that is not an HttpException (500). Past the
\* cast, an absent serviceId is answered with 404 and a present one is written.
UpdateRoute(p, serviceId, dto) ==
    /\ proc[p].pc = "idle"
    /\ LET update == updateDocument(dto)
           at == IF HasRoute(db, serviceId)
                 THEN CHOOSE i \in 1..Len(db) : db[i].serviceId = serviceId
                 ELSE 0
       IN  IF ~castsToNumber(update.version)
           THEN /\ reqOut' = [status |-> 500, svc |-> serviceId,
                              by |-> "updateRoute", upstream |-> NoResponse]
                /\ UNCHANGED <<db, proc>>
           ELSE IF at = 0
           THEN /\ reqOut' = [status |-> 404, svc |-> serviceId,
                              by |-> "updateRoute", upstream |-> NoResponse]
                /\ UNCHANGED <<db, proc>>
           ELSE /\ db' = [db EXCEPT ![at] = UpdatedDoc(db[at], update)]
                /\ proc' = [proc EXCEPT ![p] =
                              [IdleProc EXCEPT !.pc = "uSet", !.op = "updateRoute",
                                               !.svc = serviceId]]
                /\ UNCHANGED reqOut
    /\ UNCHANGED <<now, cbVars, routes, alive, serviceEndpoints, lbOut, calls,
                   created, healthOut, monitor, rlVars>>

\* updateRoute after findOneAndUpdate returned the route: an ACTIVE route is
\* set in the live index, any other is deleted from it (200).
UpdateRouteSet(p) ==
    /\ proc[p].pc = "uSet"
    /\ LET route == RouteGet(db, proc[p].svc)
       IN  routes' = IF route.status = "ACTIVE" THEN MapSet(routes, route)
                     ELSE MapDelete(routes, route.serviceId)
    /\ reqOut' = Answer(p, 200, "updateRoute")
    /\ proc' = [proc EXCEPT ![p] = IdleProc]
    /\ UNCHANGED <<now, cbVars, db, alive, serviceEndpoints, lbOut, calls, created,
                   healthOut, monitor, rlVars>>

\* deleteRoute to the reply of deleteOne: nothing deleted is answered with 404.
DeleteRouteDeleteOne(p, serviceId) ==
    /\ proc[p].pc = "idle"
    /\ IF ~HasRoute(db, serviceId)
       THEN /\ reqOut' = [status |-> 404, svc |-> serviceId,
                          by |-> "deleteRoute", upstream |-> NoResponse]
            /\ UNCHANGED <<db, proc>>
       ELSE /\ db' = MapDelete(db, serviceId)
            /\ proc' = [proc EXCEPT ![p] =
                          [IdleProc EXCEPT !.pc = "dDelete", !.op = "deleteRoute",
                                           !.svc = serviceId]]
            /\ UNCHANGED reqOut
    /\ UNCHANGED <<now, cbVars, routes, alive, serviceEndpoints, lbOut, calls,
                   created, healthOut, monitor, rlVars>>

\* deleteRoute after deleteOne: the route leaves the live index (200).
DeleteRouteDone(p) ==
    /\ proc[p].pc = "dDelete"
    /\ routes' = MapDelete(routes, proc[p].svc)
    /\ reqOut' = Answer(p, 200, "deleteRoute")
    /\ proc' = [proc EXCEPT ![p] = IdleProc]
    /\ UNCHANGED <<now, cbVars, db, alive, serviceEndpoints, lbOut, calls, created,
                   healthOut, monitor, rlVars>>

\* POST /routes/refresh -> refreshRoutes -> loadRoutes, to the reply of
\* routeModel.find.
RefreshRoutesFind(p, ok) ==
    /\ proc[p].pc = "idle"
    /\ proc' = [proc EXCEPT ![p] =
                  [IdleProc EXCEPT !.pc = "fLoad", !.op = "refreshRoutes",
                                   !.found = [ok |-> ok,
                                              docs |-> IF ok THEN FindActive(db)
                                                       ELSE <<>>]]]
    /\ UNCHANGED <<now, cbVars, db, routes, alive, serviceEndpoints, lbOut, calls,
                   created, healthOut, monitor, rlVars, reqOut>>

\* refreshRoutes after the load (201, nothing returned).
RefreshRoutesLoad(p) ==
    /\ proc[p].pc = "fLoad"
    /\ routes' = LoadedIndex(proc[p].found, routes)
    /\ reqOut' = Answer(p, 201, "refreshRoutes")
    /\ proc' = [proc EXCEPT ![p] = IdleProc]
    /\ UNCHANGED <<now, cbVars, db, alive, serviceEndpoints, lbOut, calls, created,
                   healthOut, monitor, rlVars>>

\* getRouteForPath(path) to the reply of the routeModel.find of its loadRoutes.
GetRouteForPathFind(p, path, ok) ==
    /\ proc[p].pc = "idle"
    /\ proc' = [proc EXCEPT ![p] =
                  [IdleProc EXCEPT !.pc = "mLoad", !.op = "getRouteForPath",
                                   !.path = path,
                                   !.found = [ok |-> ok,
                                              docs |-> IF ok THEN FindActive(db)
                                                       ELSE <<>>]]]
    /\ UNCHANGED <<now, cbVars, db, routes, alive, serviceEndpoints, lbOut, calls,
                   created, healthOut, monitor, rlVars, reqOut>>

\* getRouteForPath after the load: the first route of the index whose pattern
\* matches is returned, or null (svc "none").
GetRouteForPathLoad(p) ==
    /\ proc[p].pc = "mLoad"
    /\ routes' = LoadedIndex(proc[p].found, routes)
    /\ reqOut' = [status |-> 200, svc |-> MatchedService(routes', proc[p].path),
                  by |-> "getRouteForPath", upstream |-> NoResponse]
    /\ proc' = [proc EXCEPT ![p] = IdleProc]
    /\ UNCHANGED <<now, cbVars, db, alive, serviceEndpoints, lbOut, calls, created,
                   healthOut, monitor, rlVars>>

\* getRouteForPath with the continuation of its await as a step of its own:
\* loadRoutes completes (clear and refill in one run) ...
GetRouteForPathLoaded(p) ==
    /\ proc[p].pc = "mLoad"
    /\ routes' = LoadedIndex(proc[p].found, routes)
    /\ proc' = [proc EXCEPT ![p].pc = "mScan"]
    /\ UNCHANGED <<now, cbVars, db, alive, serviceEndpoints, lbOut, calls, created,
                   healthOut, monitor, rlVars, reqOut>>

\* ... and, once the caller is resumed, the loop over this.routes.values()
\* scans the index as it is then.
GetRouteForPathScan(p) ==
    /\ proc[p].pc = "mScan"
    /\ reqOut' = [status |-> 200, svc |-> MatchedService(routes, proc[p].path),
                  by |-> "getRouteForPath", upstream |-> NoResponse]
    /\ proc' = [proc EXCEPT ![p] = IdleProc]
    /\ UNCHANGED <<now, cbVars, db, routes, alive, serviceEndpoints, lbOut, calls,
                   created, healthOut, monitor, rlVars>>

\* handleRequest up to checkService, for a request that the rate limiter let
\* pass and whose path is resolved against the loaded index.
HandleRequestResolved(p, path) ==
    /\ proc[p].pc = "idle"
    /\ proc' = [proc EXCEPT ![p] =
                  [IdleProc EXCEPT !.pc = "hGate", !.op = "handleRequest",
                                   !.path = path,
                                   !.svc = MatchedService(routes, path)]]
    /\ UNCHANGED <<now, cbVars, db, routes, alive, serviceEndpoints, lbOut, calls,
                   created, healthOut, monitor, rlVars, reqOut>>

\* ------------------------------------------------------- specifications
InitCB == CBInit /\ LBIdle /\ RLInit /\ reqOut = NoAnswer

NextCB ==
    \/ \E s \in Services : CheckService(s)
    \/ \E s \in Services : RecordSuccess(s)
    \/ \E s \in Services : RecordError(s)
    \/ \E s \in Services : GetServiceStatus(s)
    \/ \E s \in Services : Reset(s)
    \/ ResetAll
    \/ Tick

SpecCB == InitCB /\ [][NextCB]_vars


\* The load balancer under concurrent callers and changing endpoint liveness.
InitLB == CBInit /\ LBInit /\ RLInit /\ reqOut = NoAnswer

NextLB ==
    \/ \E p \in Procs, s \in Services : GetServiceInstanceBegin(p, s)
    \/ \E p \in Procs : GetServiceInstanceEnd(p)
    \/ \E p \in Procs, s \in Services : RefreshEndpointsBegin(p, s)
    \/ \E p \in Procs : RefreshEndpointsEnd(p)
    \/ \E s \in Services : ClearEndpoints(s)
    \/ ClearAllEndpoints
    \/ \E u \in AllUrls : EndpointFlips(u)

SpecLB == InitLB /\ [][NextLB]_vars

\* One caller at a time, endpoint liveness fixed from the start.
NextLBSeq ==
    \/ \E s \in Services : GetServiceInstanceBegin("p1", s)
    \/ GetServiceInstanceEndCounted("p1")

SpecLBSeq == InitLB /\ [][NextLBSeq]_vars

\* The rate limiter under concurrent callers, passing time and resets.
InitRL == CBInit /\ LBIdle /\ RLInit /\ reqOut = NoAnswer

NextRL ==
    \/ \E p \in Procs, c \in Clients : CheckLimitMulti(p, c)
    \/ \E p \in Procs : CheckLimitExpire(p)
    \/ \E k \in Keys : ResetLimit(k)
    \/ Tick

SpecRL == InitRL /\ [][NextRL]_vars

\* The rate limiter with four client keys, two callers, and the clock standing.
NextRLKeys ==
    \/ \E p \in Procs, c \in Clients \cup MoreClients : CheckLimitMulti(p, c)
    \/ \E p \in Procs : CheckLimitExpire(p)

SpecRLKeys == InitRL /\ [][NextRLKeys]_vars

\* The gateway: concurrent requests through handleRequest, svcA's active
\* endpoint going up and down, time passing.
Init == CBInit /\ GWInit /\ RLInit /\ reqOut = NoAnswer

Next ==
    \/ \E p \in Procs, c \in GatewayClients, path \in Paths : HandleRequestCheckLimit(p, c, path)
    \/ \E p \in Procs : HandleRequestExpire(p)
    \/ \E p \in Procs, ok \in BOOLEAN : HandleRequestFind(p, ok)
    \/ \E p \in Procs : HandleRequestLoad(p)
    \/ \E p \in Procs : HandleRequestGate(p)
    \/ \E p \in Procs : HandleRequestSelect(p)
    \/ \E p \in Procs : HandleRequestSelected(p)
    \/ \E p \in Procs, u \in {NoResponse, 200, 500} : HandleRequestForwarded(p, u)
    \/ \E u \in {"a1"} : EndpointFlips(u)
    \/ Tick

Spec == Init /\ [][Next]_vars

\* The gateway behind its controller: concurrent HTTP requests, the clock
\* standing.
NextHttp ==
    \/ \E p \in Procs, c \in GatewayClients, path \in Paths, ok \in BOOLEAN :
          ControllerFind(p, c, path, ok)
    \/ \E p \in Procs : ControllerLoad(p)
    \/ \E p \in Procs : ControllerCheckLimit(p)
    \/ \E p \in Procs : HandleRequestExpire(p)
    \/ \E p \in Procs, ok \in BOOLEAN : HandleRequestFind(p, ok)
    \/ \E p \in Procs : HandleRequestLoad(p)
    \/ \E p \in Procs : HandleRequestGate(p)
    \/ \E p \in Procs : HandleRequestSelect(p)
    \/ \E p \in Procs : HandleRequestSelected(p)
    \/ \E p \in Procs, u \in Upstream : HandleRequestForwarded(p, u)
    \/ \E u \in {"a1"} : EndpointFlips(u)

SpecHttp == Init /\ [][NextHttp]_vars

\* checkHealth under concurrent callers, endpoints going up and down.
InitHealth == CBInit /\ HealthInit /\ RLInit /\ reqOut = NoAnswer

NextHealth ==
    \/ \E p \in Procs, ok \in BOOLEAN : CheckHealthFind(p, ok)
    \/ \E p \in Procs : CheckHealthLoad(p)
    \/ \E p \in Procs : CheckHealthSelect(p)
    \/ \E p \in Procs : CheckHealthSelected(p)
    \/ \E p \in Procs, u \in Upstream : CheckHealthForwarded(p, u)
    \/ \E u \in {"a1", "b1"} : EndpointFlips(u)

SpecHealth == InitHealth /\ [][NextHealth]_vars

\* checkHealth by one caller while another sends requests through
\* handleRequest: svcA with two active endpoints, one of them going up and
\* down, svcB with one.
ProbeDb == <<RouteOf("svcA", <<TRUE, TRUE>>), RouteOf("svcB", <<TRUE>>)>>

InitProbe ==
    /\ CBInit
    /\ db = ProbeDb
    /\ routes = <<>>
    /\ alive = {"a1", "a2", "b1"}
    /\ serviceEndpoints = [s \in {} |-> [index |-> 0, urls |-> <<>>]]
    /\ proc = [p \in Procs |-> IdleProc]
    /\ lbOut = NoOut
    /\ calls = [s \in Services |-> 0]
    /\ created = [s \in Services |-> 0]
    /\ healthOut = NoHealth
    /\ monitor = NoTicks
    /\ RLInit
    /\ reqOut = NoAnswer

NextProbe ==
    \/ \E ok \in BOOLEAN : CheckHealthFind("p1", ok)
    \/ CheckHealthLoad("p1")
    \/ CheckHealthSelect("p1")
    \/ CheckHealthSelected("p1")
    \/ \E u \in {200, 500} : CheckHealthForwarded("p1", u)
    \/ \E c \in GatewayClients, path \in Paths : HandleRequestCheckLimit("p2", c, path)
    \/ HandleRequestExpire("p2")
    \/ HandleRequestFind("p2", TRUE)
    \/ HandleRequestLoad("p2")
    \/ HandleRequestGate("p2")
    \/ HandleRequestSelect("p2")
    \/ HandleRequestSelected("p2")
    \/ \E u \in {200, 500} : HandleRequestForwarded("p2", u)
    \/ EndpointFlips("a2")

SpecProbe == InitProbe /\ [][NextProbe]_vars

\* Recovery of the breaker: requests for svcA (and requests that resolve to
\* no route) keep reaching the gate, every await of a request in flight
\* settles (the probes and the forward run under a timeout), the endpoints
\* stay up and the clock advances.
\* A failure is recorded only while the clock of the model can still reach the
\* end of the reset timeout that the failure starts.
RecoverDb == <<RouteOf("svcA", <<TRUE, FALSE>>), RouteOf("svcB", <<TRUE>>)>>

RecoverPaths == {path \in Paths : ~EndsWithHealth(StripPrefix(path))}

InitRecover ==
    /\ CBInit /\ RLInit /\ reqOut = NoAnswer
    /\ db = RecoverDb
    /\ routes = FindActive(db)
    /\ alive = AllUrls
    /\ serviceEndpoints = [s \in {} |-> [index |-> 0, urls |-> <<>>]]
    /\ proc = [p \in Procs |-> IdleProc]
    /\ lbOut = NoOut
    /\ calls = [s \in Services |-> 0]
    /\ created = [s \in Services |-> 0]
    /\ healthOut = NoHealth
    /\ monitor = NoTicks

ForwardSettles(p) ==
    \E u \in {200, 500} :
        /\ forwardRequestFails(proc[p].path, u) => now + ResetTimeout <= MaxTime
        /\ HandleRequestForwarded(p, u)

NextRecover ==
    \/ \E p \in Procs, path \in RecoverPaths : HandleRequestResolved(p, path)
    \/ \E p \in Procs : HandleRequestGate(p)
    \/ \E p \in Procs : HandleRequestSelect(p)
    \/ \E p \in Procs : HandleRequestSelected(p)
    \/ \E p \in Procs : ForwardSettles(p)
    \/ Tick

FairRecover ==
    /\ WF_vars(Tick)
    /\ \A p \in Procs :
          /\ \A path \in RecoverPaths : SF_vars(HandleRequestResolved(p, path))
          /\ WF_vars(HandleRequestGate(p))
          /\ WF_vars(HandleRequestSelect(p))
          /\ WF_vars(HandleRequestSelected(p))
          /\ WF_vars(ForwardSettles(p))

SpecRecover == InitRecover /\ [][NextRecover]_vars /\ FairRecover

\* Route registration: concurrent createRoute and getRoutes calls over an empty
\* collection, each endpoint up or down from the start.
RoutesInit ==
    /\ db = <<>>
    /\ routes = <<>>
    /\ alive \in SUBSET AllUrls
    /\ serviceEndpoints = [s \in {} |-> [index |-> 0, urls |-> <<>>]]
    /\ proc = [p \in Procs |-> IdleProc]
    /\ lbOut = NoOut
    /\ calls = [s \in Services |-> 0]
    /\ created = [s \in Services |-> 0]
    /\ healthOut = NoHealth
    /\ monitor = NoTicks

InitRoutes == CBInit /\ RoutesInit /\ RLInit /\ reqOut = NoAnswer

NextRoutes ==
    \/ \E p \in Procs, dto \in SubmittedDtos : CreateRouteFindOne(p, dto)
    \/ \E p \in Procs : CreateRouteProbed(p)
    \/ \E p \in Procs : CreateRouteInsert(p)
    \/ \E p \in Procs : CreateRouteSet(p)
    \/ \E p \in Procs, ok \in BOOLEAN : GetRoutesFind(p, ok)
    \/ \E p \in Procs : GetRoutesLoad(p)

SpecRoutes == InitRoutes /\ [][NextRoutes]_vars

\* Registration of svcA next to the traffic for it: concurrent createRoute and
\* getRoutes calls and one HTTP request to /a/x at a time, each endpoint up or
\* down from the start.
NextRegister ==
    \/ \E p \in Procs, dto \in {d \in SubmittedDtos : d.serviceId = "svcA"} :
          CreateRouteFindOne(p, dto)
    \/ \E p \in Procs : CreateRouteProbed(p)
    \/ \E p \in Procs : CreateRouteInsert(p)
    \/ \E p \in Procs : CreateRouteSet(p)
    \/ \E p \in Procs, ok \in BOOLEAN : GetRoutesFind(p, ok)
    \/ \E p \in Procs : GetRoutesLoad(p)
    \/ \E c \in GatewayClients, ok \in BOOLEAN :
          ControllerFind("p2", c, <<"/", "a", "/", "x">>, ok)
    \/ \E p \in Procs : ControllerLoad(p)
    \/ \E p \in Procs : ControllerCheckLimit(p)
    \/ \E p \in Procs : HandleRequestExpire(p)
    \/ \E p \in Procs, ok \in BOOLEAN : HandleRequestFind(p, ok)
    \/ \E p \in Procs : HandleRequestLoad(p)
    \/ \E p \in Procs : HandleRequestGate(p)
    \/ \E p \in Procs : HandleRequestSelect(p)
    \/ \E p \in Procs : HandleRequestSelected(p)
    \/ \E p \in Procs, u \in {NoResponse, 200} : HandleRequestForwarded(p, u)

InitRegister == InitRoutes /\ alive \subseteq {"a1", "a2", "a3"}

SpecRegister == InitRegister /\ [][NextRegister]_vars

\* Route administration by one caller, one call after another: createRoute,
\* updateRoute, deleteRoute, refreshRoutes and getRouteForPath over a
\* collection that holds each service with some status or not at all. The
\* index starts as the constructor's load left it: filled, or empty if the
\* load failed.
\* The most createRoute calls that return their route, per serviceId.
MaxCreated == 2

AdminStatuses == {"ACTIVE", "INACTIVE", "MAINTENANCE"}

AdminDocs(serviceId) ==
    {<<>>} \cup {<<RouteDoc(serviceId, [i \in 1..Len(Urls[serviceId]) |-> TRUE], st)>> :
                    st \in AdminStatuses}

AdminDbs == {a \o b : a \in AdminDocs("svcA"), b \in AdminDocs("svcB")}

InitAdmin ==
    /\ CBInit /\ RLInit /\ reqOut = NoAnswer
    /\ db \in AdminDbs
    /\ routes \in {FindActive(db), <<>>}
    /\ alive = AllUrls
    /\ serviceEndpoints = [s \in {} |-> [index |-> 0, urls |-> <<>>]]
    /\ proc = [p \in Procs |-> IdleProc]
    /\ lbOut = NoOut
    /\ calls = [s \in Services |-> 0]
    /\ created = [s \in Services |-> 0]
    /\ healthOut = NoHealth
    /\ monitor = NoTicks

NextAdmin ==
    \/ \E dto \in SubmittedDtos :
          created[dto.serviceId] < MaxCreated /\ CreateRouteFindOne("p1", dto)
    \/ CreateRouteProbed("p1")
    \/ CreateRouteInsert("p1")
    \/ CreateRouteSet("p1")
    \/ \E s \in Services, dto \in UpdateRouteDtos : UpdateRoute("p1", s, dto)
    \/ \E s \in Services : DeleteRouteDeleteOne("p1", s)
    \/ DeleteRouteDone("p1")
    \/ \E ok \in BOOLEAN : RefreshRoutesFind("p1", ok)
    \/ RefreshRoutesLoad("p1")
    \/ \E path \in Paths, ok \in BOOLEAN : GetRouteForPathFind("p1", path, ok)
    \/ GetRouteForPathLoad("p1")

SpecAdmin == InitAdmin /\ [][NextAdmin]_vars

\* The live index under two concurrent callers of getRouteForPath, getRoutes,
\* refreshRoutes, createRoute, updateRoute and deleteRoute; both services are
\* registered and active at the start.
IndexDb ==
    <<RouteOf("svcA", [i \in 1..Len(Urls["svcA"]) |-> TRUE]),
      RouteOf("svcB", [i \in 1..Len(Urls["svcB"]) |-> TRUE])>>

\* The bodies submitted: svcB, active, with its endpoint; the status sent with
\* PUT; and the paths resolved, one of svcA and one of svcB.
IndexDtos ==
    {dto \in SubmittedDtos :
        dto.serviceId = "svcB" /\ dto.status = "ACTIVE" /\ dto.flags = <<TRUE>>}

IndexUpdates == {dto \in UpdateRouteDtos : dto.status = "INACTIVE"}

IndexPaths == {path \in Paths : Len(path) <= 4}

InitIndex ==
    /\ CBInit /\ RLInit /\ reqOut = NoAnswer
    /\ db = IndexDb
    /\ routes = <<>>
    /\ alive = AllUrls
    /\ serviceEndpoints = [s \in {} |-> [index |-> 0, urls |-> <<>>]]
    /\ proc = [p \in Procs |-> IdleProc]
    /\ lbOut = NoOut
    /\ calls = [s \in Services |-> 0]
    /\ created = [s \in Services |-> 0]
    /\ healthOut = NoHealth
    /\ monitor = NoTicks

NextIndex ==
    \/ \E p \in Procs, path \in IndexPaths, ok \in BOOLEAN : GetRouteForPathFind(p, path, ok)
    \/ \E p \in Procs : GetRouteForPathLoaded(p)
    \/ \E p \in Procs : GetRouteForPathScan(p)
    \/ \E p \in Procs, ok \in BOOLEAN : GetRoutesFind(p, ok)
    \/ \E p \in Procs : GetRoutesLoad(p)
    \/ \E p \in Procs, ok \in BOOLEAN : RefreshRoutesFind(p, ok)
    \/ \E p \in Procs : RefreshRoutesLoad(p)
    \/ \E p \in Procs, dto \in IndexDtos :
          created[dto.serviceId] < MaxCreated /\ CreateRouteFindOne(p, dto)
    \/ \E p \in Procs : CreateRouteProbed(p)
    \/ \E p \in Procs : CreateRouteInsert(p)
    \/ \E p \in Procs : CreateRouteSet(p)
    \/ \E p \in Procs, s \in Services, dto \in IndexUpdates : UpdateRoute(p, s, dto)
    \/ \E p \in Procs, s \in Services : DeleteRouteDeleteOne(p, s)
    \/ \E p \in Procs : DeleteRouteDone(p)

SpecIndex == InitIndex /\ [][NextIndex]_vars

\* Path matching on its own: one route with any short pattern, or one of the
\* patterns /test/* and /test, and getRouteForPath calls for any short path or
\* one of /test/123, /test/, /testing, /other, /test and /test/sub.
MaxPatternLen == 3
MaxPathLen == 4

Strings(alphabet, n) == UNION {[1..k -> alphabet] : k \in 1..n}

TestStar == <<"/", "t", "e", "s", "t", "/", "*">>
TestPlain == <<"/", "t", "e", "s", "t">>

MatchPatterns == Strings({"/", "t", "*"}, MaxPatternLen) \cup {TestStar, TestPlain}

MatchPaths ==
    Strings({"/", "t", "e"}, MaxPathLen)
    \cup {TestPlain \o <<"/", "1", "2", "3">>, TestPlain \o <<"/">>,
          TestPlain \o <<"i", "n", "g">>, <<"/", "o", "t", "h", "e", "r">>,
          TestPlain, TestPlain \o <<"/", "s", "u", "b">>}

InitMatch ==
    /\ CBInit /\ RLInit /\ reqOut = NoAnswer
    /\ \E pattern \in MatchPatterns :
          db = <<[RouteDoc("svcA", <<TRUE>>, "ACTIVE") EXCEPT !.pathPattern = pattern]>>
    /\ routes = db
    /\ alive = AllUrls
    /\ serviceEndpoints = [s \in {} |-> [index |-> 0, urls |-> <<>>]]
    /\ proc = [p \in Procs |-> IdleProc]
    /\ lbOut = NoOut
    /\ calls = [s \in Services |-> 0]
    /\ created = [s \in Services |-> 0]
    /\ healthOut = NoHealth
    /\ monitor = NoTicks

NextMatch ==
    \/ \E path \in MatchPaths, ok \in BOOLEAN : GetRouteForPathFind("p1", path, ok)
    \/ GetRouteForPathLoad("p1")

SpecMatch == InitMatch /\ [][NextMatch]_vars

\* Lookups and refreshes over an index that was loaded some time ago: the
\* collection is shared, and may since have been changed by another instance.
InitStale ==
    /\ CBInit /\ RLInit /\ reqOut = NoAnswer
    /\ db \in AdminDbs
    /\ routes \in {FindActive(d) : d \in AdminDbs}
    /\ alive = AllUrls
    /\ serviceEndpoints = [s \in {} |-> [index |-> 0, urls |-> <<>>]]
    /\ proc = [p \in Procs |-> IdleProc]
    /\ lbOut = NoOut
    /\ calls = [s \in Services |-> 0]
    /\ created = [s \in Services |-> 0]
    /\ healthOut = NoHealth
    /\ monitor = NoTicks

NextStale ==
    \/ \E p \in Procs, ok \in BOOLEAN : RefreshRoutesFind(p, ok)
    \/ \E p \in Procs : RefreshRoutesLoad(p)
    \/ \E p \in Procs, path \in Paths, ok \in BOOLEAN : GetRouteForPathFind(p, path, ok)
    \/ \E p \in Procs : GetRouteForPathLoad(p)

SpecStale == InitStale /\ [][NextStale]_vars

\* The Health Monitor on its own: tick after tick, each with what checkHealth
\* resolved with and with a store that answers or fails.
InitMonitor == CBInit /\ GWInit /\ RLInit /\ reqOut = NoAnswer

NextMonitor ==
    \/ CheckServicesHealthBegin
    \/ \E health \in HealthResults : CheckServicesHealthChecked(health)
    \/ \E ok \in BOOLEAN : CheckServicesHealthCreated(ok)
    \/ \E ok \in BOOLEAN : CheckServicesHealthSaved(ok)

SpecMonitor == InitMonitor /\ [][NextMonitor]_vars

\* One caller mixing refreshRoutes, refreshEndpoints and getRouteForPath calls
\* into its getServiceInstance calls, while neither the routes nor the
\* liveness of the endpoints change.
NextRefresh ==
    \/ \E s \in Services : GetServiceInstanceBegin("p1", s)
    \/ GetServiceInstanceEndCounted("p1")
    \/ \E s \in Services : RefreshEndpointsBegin("p1", s)
    \/ RefreshEndpointsEnd("p1")
    \/ \E ok \in BOOLEAN : RefreshRoutesFind("p1", ok)
    \/ RefreshRoutesLoad("p1")
    \/ \E path \in Paths, ok \in BOOLEAN : GetRouteForPathFind("p1", path, ok)
    \/ GetRouteForPathLoad("p1")

SpecRefresh == InitLB /\ [][NextRefresh]_vars

\* ======================================================== breaker properties
Elapsed(state, at) == at - state.lastFailure[1]

\* C1: from a fresh breaker, after exactly failureThreshold recordError calls
\* with no intervening recordSuccess the status is OPEN and a checkService made
\* before resetTimeout has elapsed fails with Unavailable; after fewer calls the
\* status is still CLOSED and checkService passes.
C1_OpensAtThreshold ==
    \A s \in Services :
        run[s].clean =>
            /\ run[s].n < FailureThreshold =>
                  /\ getServiceState(s).status = "CLOSED"
                  /\ (lastCall.op = "checkService" /\ lastCall.svc = s)
                        => lastCall.res = "ok"
            /\ run[s].n = FailureThreshold =>
                  /\ getServiceState(s).status = "OPEN"
                  /\ ( /\ lastCall.op = "checkService"
                       /\ lastCall.svc = s
                       /\ Elapsed(lastCall.pre, lastCall.at) < ResetTimeout )
                        => lastCall.res = "Unavailable"

C1_Witness ==
    /\ lastCall.op = "checkService"
    /\ lastCall.res = "Unavailable"
    /\ run[lastCall.svc].clean
    /\ run[lastCall.svc].n = FailureThreshold
    /\ \E s \in Services : run[s].clean /\ run[s].n = FailureThreshold - 1

\* C2: an OPEN breaker whose last failure is at least resetTimeout old passes
\* the next checkService and becomes HALF_OPEN; a checkService made earlier
\* fails with Unavailable and changes nothing; the breaker becomes HALF_OPEN
\* only inside checkService, and without a checkService (or an administrative
\* reset) an OPEN breaker stays OPEN however much time passes.
C2_LazyHalfOpen ==
    [][\A s \in Services :
          LET pre == getServiceState(s)
              post == getServiceState(s)'
          IN  pre.status = "OPEN" =>
                /\ (CheckService(s) /\ Elapsed(pre, now) >= ResetTimeout) =>
                      /\ post = [pre EXCEPT !.status = "HALF_OPEN"]
                      /\ lastCall'.res = "ok"
                /\ (CheckService(s) /\ Elapsed(pre, now) < ResetTimeout) =>
                      /\ post = pre
                      /\ lastCall'.res = "Unavailable"
                /\ post.status = "HALF_OPEN" => CheckService(s)
                /\ ~(CheckService(s) \/ Reset(s) \/ ResetAll) => post.status = "OPEN"
      ]_vars

C2_Witness ==
    /\ lastCall.op = "checkService"
    /\ lastCall.pre.status = "OPEN"
    /\ lastCall.res = "ok"
    /\ getServiceState(lastCall.svc).status = "HALF_OPEN"
    /\ lastCall.prev.op = "checkService"
    /\ lastCall.prev.svc = lastCall.svc
    /\ lastCall.prev.status = "OPEN"

\* C3: a recordSuccess made while the breaker is HALF_OPEN moves it to CLOSED
\* with failureCount 0 and lastFailureTimestamp null, and a checkService on a
\* breaker in that state passes.
C3_HalfOpenSuccessCloses ==
    /\ (lastCall.op = "recordSuccess" /\ lastCall.pre.status = "HALF_OPEN") =>
          getServiceState(lastCall.svc) =
              [failures |-> 0, lastFailure |-> NoDate, status |-> "CLOSED"]
    /\ ( /\ lastCall.op = "checkService"
         /\ lastCall.prev.op = "recordSuccess"
         /\ lastCall.prev.svc = lastCall.svc
         /\ lastCall.prev.status = "HALF_OPEN" ) =>
          /\ lastCall.res = "ok"
          /\ lastCall.pre = [failures |-> 0, lastFailure |-> NoDate, status |-> "CLOSED"]
          /\ getServiceState(lastCall.svc) = lastCall.pre

C3_Witness ==
    /\ lastCall.op = "checkService"
    /\ lastCall.prev.op = "recordSuccess"
    /\ lastCall.prev.svc = lastCall.svc
    /\ lastCall.prev.status = "HALF_OPEN"
    /\ lastCall.res = "ok"

\* C4: recordError in any state adds exactly one to failureCount and sets
\* lastFailureTimestamp to now; recorded on an OPEN or HALF_OPEN breaker it
\* leaves the breaker OPEN, and checkService on an OPEN breaker fails for as
\* long as less than resetTimeout has elapsed since the most recent recordError.
C4_FailureRestartsClock ==
    /\ lastCall.op = "recordError" =>
          LET post == getServiceState(lastCall.svc)
          IN  /\ post.failures = lastCall.pre.failures + 1
              /\ post.lastFailure = <<lastCall.at>>
              /\ run[lastCall.svc].lastErr = <<lastCall.at>>
              /\ lastCall.pre.status \in {"OPEN", "HALF_OPEN"} => post.status = "OPEN"
    /\ ( /\ lastCall.op = "checkService"
         /\ lastCall.pre.status = "OPEN"
         /\ run[lastCall.svc].lastErr # NoDate
         /\ lastCall.at - run[lastCall.svc].lastErr[1] < ResetTimeout ) =>
          /\ lastCall.res = "Unavailable"
          /\ getServiceState(lastCall.svc).status = "OPEN"

C4_Witness ==
    /\ lastCall.op = "checkService"
    /\ lastCall.res = "Unavailable"
    /\ lastCall.prev.op = "recordError"
    /\ lastCall.prev.svc = lastCall.svc
    /\ lastCall.prev.status = "HALF_OPEN"
    /\ lastCall.at >= ResetTimeout + 1

\* C5: HALF_OPEN admits a single trial request: while the request whose
\* checkService moved a service's breaker from OPEN to HALF_OPEN has not yet
\* recorded its outcome, no other request for that service is admitted.
C5_SingleTrial ==
    \A p \in Procs, q \in Procs :
        ~ ( /\ p # q
            /\ proc[p].pc \in {"hSelect", "hProbe", "hForward"}
            /\ proc[p].gate = "HALF_OPEN"
            /\ proc[p].moved
            /\ proc[q].pc \in {"hSelect", "hProbe", "hForward"}
            /\ proc[q].svc = proc[p].svc
            /\ proc[q].gate = "HALF_OPEN"
            /\ ~proc[q].moved )

\* C6: reset(id) forces that breaker to CLOSED / 0 / null from any state and
\* resetAll() does so for every breaker; a getServiceStatus made next returns
\* CLOSED and a checkService made next passes.
C6_ResetForcesClosed ==
    /\ lastCall.op = "reset" => getServiceState(lastCall.svc) = FreshState
    /\ lastCall.op = "resetAll" =>
          \A s \in Services : getServiceState(s) = FreshState
    /\ ( /\ lastCall.op \in {"getServiceStatus", "checkService"}
         /\ \/ lastCall.prev.op = "reset" /\ lastCall.prev.svc = lastCall.svc
            \/ lastCall.prev.op = "resetAll" ) =>
          /\ lastCall.res = (IF lastCall.op = "checkService" THEN "ok" ELSE "CLOSED")
          /\ getServiceState(lastCall.svc) = FreshState

C6_Witness ==
    /\ lastCall.op = "checkService"
    /\ lastCall.prev.op = "reset"
    /\ lastCall.prev.svc = lastCall.svc
    /\ lastCall.prev.status = "OPEN"
    /\ lastCall.res = "ok"
    /\ \E s \in Services : getServiceState(s).status = "HALF_OPEN"

\* ================================================== load balancer properties
\* The live endpoint list of a service: the URLs of its route that are flagged
\* active and answer the probe, in declaration order.
LiveList(s) ==
    IF \A i \in 1..Len(routes) : routes[i].serviceId # s
    THEN <<>>
    ELSE LET e == routes[CHOOSE i \in 1..Len(routes) : routes[i].serviceId = s].endpoints
             ok == SelectSeq(e, LAMBDA x : x.isActive /\ x.url \in alive)
         IN  [i \in 1..Len(ok) |-> ok[i].url]

\* C7: with the live endpoint list of a service fixed at k >= 1 URLs and one
\* call at a time, the i-th getServiceInstance call for the service returns
\* endpoint[(i-1) mod k].
C7_RoundRobin ==
    (lbOut.op = "get" /\ Len(LiveList(lbOut.svc)) >= 1) =>
        LET L == LiveList(lbOut.svc)
            i == calls[lbOut.svc]
        IN  /\ lbOut.err = "none"
            /\ lbOut.url = L[((i - 1) % Len(L)) + 1]

C7_Witness ==
    /\ lbOut.op = "get"
    /\ lbOut.svc = "svcA"
    /\ Len(LiveList("svcA")) = 3
    /\ calls["svcA"] = 4
    /\ lbOut.url = "a1"
    /\ calls["svcB"] = 2

\* C8: under any interleaving of getServiceInstance calls, with the live list
\* growing and shrinking between them, the stored index of a service is always
\* smaller than the length of its stored URL list, and a call that returns
\* returns a URL of the list that same call fetched.
C8_CursorInRange ==
    /\ \A s \in DOMAIN serviceEndpoints :
          /\ serviceEndpoints[s].index >= 0
          /\ serviceEndpoints[s].index < Len(serviceEndpoints[s].urls)
    /\ (lbOut.op = "get" /\ lbOut.err = "none") =>
          \E i \in 1..Len(lbOut.urls) : lbOut.urls[i] = lbOut.url

\* A call that kept an index beyond the end of the shorter list it fetched,
\* completing while another call for the same service is still in flight.
C8_Witness ==
    /\ lbOut.op = "get"
    /\ lbOut.err = "none"
    /\ lbOut.idx >= Len(lbOut.urls)
    /\ \E p \in Procs :
          /\ proc[p].pc = "lbwait"
          /\ proc[p].op = "get"
          /\ proc[p].svc = lbOut.svc
          /\ Len(proc[p].pend.cand) > Len(lbOut.urls)

\* C9: a getServiceInstance call whose freshly fetched live-endpoint set is
\* empty (no endpoint flagged active, or none answering the probe) fails with
\* Unavailable, returns no URL and leaves the cursor map as it was.
C9_EmptyIsUnavailable ==
    [][\A p \in Procs :
          ( /\ GetServiceInstanceEnd(p)
            /\ proc[p].pend.err # "NotFound"
            /\ \A i \in 1..Len(proc[p].pend.cand) : proc[p].pend.cand[i] \notin alive )
          => /\ lbOut'.err = "Unavailable"
             /\ lbOut'.url = "none"
             /\ serviceEndpoints' = serviceEndpoints
      ]_vars

C9_Witness ==
    /\ lbOut.op = "get"
    /\ lbOut.err = "Unavailable"
    /\ \E i \in 1..Len(routes) :
          /\ routes[i].serviceId = lbOut.svc
          /\ \E j \in 1..Len(routes[i].endpoints) : routes[i].endpoints[j].isActive
    /\ lbOut.svc \in DOMAIN serviceEndpoints
    /\ serviceEndpoints[lbOut.svc].index > 0

\* =================================================== rate limiter properties
\* C10: with a limit of Points, the first Points checkLimit calls for a key in
\* a window succeed and every later call of the window fails with
\* TooManyRequests; a counter whose expiry has been set is gone once Duration
\* seconds have passed, and the call after that is number 1 of a new window
\* and succeeds.
C10_FixedWindow ==
    /\ rlOut.key # "none" =>
          /\ rlOut.count = rlOut.n
          /\ rlOut.n <= Points => rlOut.err = "none"
          /\ rlOut.n > Points => rlOut.err = "TooManyRequests"
    /\ \A k \in DOMAIN redis :
          window[k].setAt # NoDate =>
              /\ now - window[k].setAt[1] < Duration
              /\ redis[k].ttl = Duration - (now - window[k].setAt[1])
    /\ \A k \in Keys : k \notin DOMAIN redis => window[k].n = 0

\* The call made after a window with a rejected call has expired.
C10_Witness ==
    /\ rlOut.key # "none"
    /\ rlOut.after = [gone |-> "expired", full |-> TRUE]
    /\ rlOut.n = 1
    /\ rlOut.err = "none"
    /\ rlOut.remaining = Points - 1
    /\ now >= Duration

\* C11: a counter never stays without an expiry. Only the completion of a call
\* whose increment returned 1 sets the expiry of its key, to Duration seconds;
\* no other checkLimit step changes an expiry; and every counter without an
\* expiry has such a call still in flight, so once all calls have completed
\* every existing counter has a TTL.
C11_ExpiryAlwaysSet ==
    [][
        /\ \A k \in DOMAIN redis' :
              redis'[k].ttl = NoExpiry =>
                  \E p \in Procs : proc'[p].pc = "expire" /\ proc'[p].key = k
        /\ \A p \in Procs :
              CheckLimitExpire(p) =>
                  /\ proc[p].count = 1
                  /\ proc[p].key \in DOMAIN redis => redis'[proc[p].key].ttl = Duration
                  /\ \A k \in DOMAIN redis \ {proc[p].key} : redis'[k] = redis[k]
        /\ \A p \in Procs, c \in Clients :
              CheckLimitMulti(p, c) =>
                  /\ \A k \in DOMAIN redis : redis'[k].ttl = redis[k].ttl
                  /\ getKey(c) \notin DOMAIN redis => proc'[p].pc = "expire"
      ]_vars

\* The first call of a window completing after a second call for the same key
\* has already been counted and has returned.
C11_Witness ==
    /\ rlOut.key # "none"
    /\ rlOut.n = 1
    /\ \A p \in Procs : proc[p].pc = "idle"
    /\ rlOut.key \in DOMAIN redis
    /\ redis[rlOut.key].count = 2
    /\ redis[rlOut.key].ttl = Duration
    /\ now > 0

\* Two identities count separately when both send an API key and the keys
\* differ, or neither sends one and the IPs differ.
SeparateClients(c, d) ==
    \/ c.apiKey # "" /\ d.apiKey # "" /\ c.apiKey # d.apiKey
    \/ c.apiKey = "" /\ d.apiKey = "" /\ c.ip # d.ip

\* C12: counters of different client keys are independent. Separate clients
\* get different keys; a checkLimit step for one key leaves the count and the
\* TTL of every other key as they were; and the first call for a key is
\* counted as 1 whatever the other counters hold.
C12_KeysIndependent ==
    /\ \A c \in Clients \cup MoreClients, d \in Clients \cup MoreClients :
          SeparateClients(c, d) => getKey(c) # getKey(d)
    /\ [][
            /\ \A p \in Procs, c \in Clients \cup MoreClients :
                  CheckLimitMulti(p, c) =>
                      /\ DOMAIN redis' = DOMAIN redis \cup {getKey(c)}
                      /\ \A k \in DOMAIN redis \ {getKey(c)} : redis'[k] = redis[k]
                      /\ getKey(c) \notin DOMAIN redis => redis'[getKey(c)].count = 1
            /\ \A p \in Procs :
                  CheckLimitExpire(p) =>
                      /\ DOMAIN redis' = DOMAIN redis
                      /\ \A k \in DOMAIN redis \ {proc[p].key} : redis'[k] = redis[k]
          ]_vars

\* A client without API key on a second IP makes its first call, with its full
\* budget, after the client on the first IP and one API key were rejected.
C12_Witness ==
    /\ rlOut.n = 1
    /\ rlOut.key = getKey([apiKey |-> "", ip |-> "ip2"])
    /\ rlOut.err = "none"
    /\ rlOut.remaining = Points - 1
    /\ getKey([apiKey |-> "", ip |-> "ip1"]) \in DOMAIN redis
    /\ redis[getKey([apiKey |-> "", ip |-> "ip1"])].count > Points
    /\ getKey([apiKey |-> "keyA", ip |-> "ip1"]) \in DOMAIN redis
    /\ redis[getKey([apiKey |-> "keyA", ip |-> "ip1"])].count > Points

\* ====================================================== gateway properties
\* C13: the rate-limit check is the first step of handleRequest and its
\* failure ends the request: the step in which the count comes back above
\* Points answers 429, leaves no later step of that request to run, and touches
\* neither the route index, nor a breaker, nor a cursor; a request reaches route
\* resolution only from a rate-limit step whose count was within Points.
C13_LimitShortCircuits ==
    [][
        \A p \in Procs :
            /\ ControllerCheckLimit(p) =>
                  LET n == redis'[getKey(proc[p].client)].count
                  IN  /\ n > Points =>
                            /\ reqOut'.status = 429
                            /\ proc'[p] = IdleProc
                            /\ UNCHANGED <<routes, states, serviceEndpoints>>
                      /\ n <= Points =>
                            /\ proc'[p].pc \in {"hExpire", "hFind"}
                            /\ UNCHANGED reqOut
            /\ (proc'[p].pc = "hFind" /\ proc[p].pc # "hFind") =>
                  /\ proc[p].pc \in {"cLimit", "hExpire"}
                  /\ redis'[proc'[p].key].count <= Points \/ proc[p].pc = "hExpire"
            /\ (proc'[p].pc \in {"hLoad", "hGate", "hSelect", "hProbe", "hForward"}
                   /\ proc[p].pc # proc'[p].pc) =>
                  proc[p].pc \in {"hFind", "hLoad", "hGate", "hSelect", "hProbe"}
      ]_vars

\* A request answered 429 while another request of the same client, admitted
\* before it, is waiting for its upstream.
C13_Witness ==
    /\ reqOut.status = 429
    /\ reqOut.svc = "svcA"
    /\ \E p \in Procs : proc[p].pc = "hForward"
    /\ \A k \in DOMAIN redis : redis[k].count = Points + 1
    /\ DOMAIN redis # {}

NoRouteMatches(index, path) ==
    \A i \in 1..Len(index) : ~matchPath(path, index[i].pathPattern)

\* C14: a request whose path matches no route of the index is answered 404 by
\* the controller's route check, whatever the client's counter holds: that
\* check comes before the rate limiter, so the request is not counted, never
\* answered 429, and nothing is selected or forwarded for it.
C14_UnroutedIs404 ==
    [][
        \A p \in Procs :
            /\ (ControllerLoad(p) /\ NoRouteMatches(routes', proc[p].path)) =>
                  /\ reqOut' = [NoAnswer EXCEPT !.status = 404, !.by = "controller"]
                  /\ proc'[p] = IdleProc
                  /\ UNCHANGED <<redis, states, serviceEndpoints>>
            /\ (proc[p].pc = "idle" /\ proc'[p].pc # "idle") =>
                  /\ proc'[p].pc = "cLoad"
                  /\ UNCHANGED <<redis, states, serviceEndpoints, reqOut>>
      ]_vars

\* A request to /bb answered 404 after the client has gone over its limit.
C14_Witness ==
    /\ reqOut = [NoAnswer EXCEPT !.status = 404, !.by = "controller"]
    /\ routes # <<>>
    /\ DOMAIN redis # {}
    /\ \A k \in DOMAIN redis : redis[k].count > Points
    /\ \A p \in Procs : proc[p].pc = "idle"

\* C15: every forwarded request the upstream answers with a 5xx status is one
\* recorded failure and is answered 503; once FailureThreshold failures are
\* on record the breaker is OPEN for as long as less than ResetTimeout has
\* passed since the last of them, and a request that comes to the gate in that
\* time is answered 503 there, with no endpoint selected, probed or called.
C15_OpenBreakerRejectsAtGate ==
    [][
        /\ \A p \in Procs, u \in Upstream :
              (u >= 500 /\ HandleRequestForwarded(p, u)) =>
                  /\ run'[proc[p].svc].n = run[proc[p].svc].n + 1
                  /\ reqOut'.status = 503
        /\ \A s \in Services :
              ( /\ run'[s].n >= FailureThreshold
                /\ now' - run'[s].lastErr[1] < ResetTimeout ) =>
                  getServiceState(s)'.status = "OPEN"
        /\ \A p \in Procs :
              ( /\ HandleRequestGate(p)
                /\ proc[p].svc # "none"
                /\ run[proc[p].svc].n >= FailureThreshold
                /\ now - run[proc[p].svc].lastErr[1] < ResetTimeout ) =>
                  /\ reqOut'.status = 503
                  /\ reqOut'.by = "gate"
                  /\ proc'[p] = IdleProc
                  /\ UNCHANGED <<serviceEndpoints, states>>
      ]_vars

\* The request after exactly FailureThreshold failed forwards, rejected at the
\* gate a second after the last failure.
C15_Witness ==
    /\ reqOut.status = 503
    /\ reqOut.by = "gate"
    /\ reqOut.svc = "svcA"
    /\ run["svcA"].n = FailureThreshold
    /\ run["svcA"].clean
    /\ getServiceState("svcA").status = "OPEN"
    /\ now = run["svcA"].lastErr[1] + 1
    /\ "svcA" \in DOMAIN serviceEndpoints

\* What one recordError / one recordSuccess leaves behind.
OneErrorRecorded(pre, post, at) ==
    /\ post.failures = pre.failures + 1
    /\ post.lastFailure = <<at>>

OneSuccessRecorded(pre, post) ==
    IF pre.status = "HALF_OPEN"
    THEN post = [failures |-> 0, lastFailure |-> NoDate, status |-> "CLOSED"]
    ELSE post = pre

\* C16 as stated: a forwarded request whose upstream answers neither 404 nor
\* >= 500 is answered with the upstream's status and recorded as one success;
\* an answer of 404 or >= 500, or no answer, gives 503 and one recorded error.
C16_OutcomeByStatus ==
    [][
        \A p \in Procs, u \in Upstream, s \in Services :
            (proc[p].svc = s /\ HandleRequestForwarded(p, u)) =>
                LET pre == getServiceState(s)
                    post == getServiceState(s)'
                IN  IF u # NoResponse /\ u # 404 /\ u < 500
                    THEN /\ reqOut'.status = u
                         /\ OneSuccessRecorded(pre, post)
                    ELSE /\ reqOut'.status = 503
                         /\ OneErrorRecorded(pre, post, now)
      ]_vars

\* C16, amended: the same, except that on a path whose forwarded part ends in
\* /health only a 200 counts as an answer to pass through; every other answer
\* to such a request gives 503 and one recorded error.
C16_OutcomeByStatusOrHealth ==
    [][
        \A p \in Procs, u \in Upstream, s \in Services :
            (proc[p].svc = s /\ HandleRequestForwarded(p, u)) =>
                LET pre == getServiceState(s)
                    post == getServiceState(s)'
                    health == EndsWithHealth(StripPrefix(proc[p].path))
                IN  IF /\ u # NoResponse
                       /\ u # 404
                       /\ u < 500
                       /\ health => u = 200
                    THEN /\ reqOut'.status = u
                         /\ reqOut'.upstream = u
                         /\ OneSuccessRecorded(pre, post)
                         /\ run'[s].n \in {0, run[s].n}
                    ELSE /\ reqOut'.status = 503
                         /\ OneErrorRecorded(pre, post, now)
                         /\ run'[s].n = run[s].n + 1
                         /\ post.failures >= FailureThreshold => post.status = "OPEN"
      ]_vars

\* A 204 of the upstream turned into 503 and a recorded failure.
C16_Witness ==
    /\ reqOut.by = "forward"
    /\ reqOut.status = 503
    /\ reqOut.upstream = 204
    /\ run[reqOut.svc].n = 1
    /\ getServiceState(reqOut.svc).failures = 1

\* ================================================== health and route properties
\* The info object of the checkHealth call that takes a step, after that step.
InfoAfter(p) == IF proc'[p].pc = "idle" THEN healthOut'.info ELSE proc'[p].info

WithServiceId(collection, serviceId) ==
    {i \in 1..Len(collection) : collection[i].serviceId = serviceId}

AtMostOnePerServiceId ==
    \A s \in Services :
        /\ Cardinality(WithServiceId(db, s)) <= 1
        /\ Cardinality(WithServiceId(routes, s)) <= 1
        /\ created[s] <= 1

\* C18: a createRoute call for a serviceId the collection already holds is
\* answered 400 and leaves the collection and the live index as they are; and
\* however concurrent createRoute calls interleave, no serviceId ever has more
\* than one document, more than one index entry, or more than one createRoute
\* call that returned its route.
C18_ServiceIdUnique ==
    /\ AtMostOnePerServiceId
    /\ [][
          /\ AtMostOnePerServiceId'
          /\ \A p \in Procs, s \in Services :
                ( /\ HasRoute(db, s)
                  /\ proc[p].pc = "idle"
                  /\ \E dto \in SubmittedDtos :
                        dto.serviceId = s /\ CreateRouteFindOne(p, dto) ) =>
                    /\ reqOut'.status = 400
                    /\ reqOut'.by = "createRoute"
                    /\ reqOut'.svc = s
                    /\ proc'[p] = IdleProc
                    /\ UNCHANGED <<db, routes, created>>
      ]_vars

\* Two calls for svcA that both found no route: one has returned its route,
\* the other was refused by the store.
C18_Witness ==
    /\ reqOut.status = 500
    /\ reqOut.by = "createRoute"
    /\ reqOut.svc = "svcA"
    /\ created["svcA"] = 1
    /\ Cardinality(WithServiceId(db, "svcA")) = 1
    /\ HasRoute(routes, "svcA")

\* C19: when the probes of a createRoute call settle and no endpoint submitted
\* as active answers with 200, the call is answered 503 and has written neither
\* to the collection nor to the live index. As long as the collection holds no
\* route with that serviceId, the live index holds none either, getRoutes
\* returns none, and a request to a path of its pattern is answered 404.
C19_UnreachableNotPersisted ==
    [][
        \A p \in Procs, s \in Services :
            /\ ( /\ proc[p].pc = "rProbe"
                 /\ proc[p].svc = s
                 /\ \A i \in 1..Len(proc[p].dto[1].flags) :
                       proc[p].dto[1].flags[i] => Urls[s][i] \notin alive
                 /\ CreateRouteProbed(p) ) =>
                   /\ reqOut'.status = 503
                   /\ reqOut'.by = "createRoute"
                   /\ reqOut'.svc = s
                   /\ proc'[p] = IdleProc
                   /\ UNCHANGED <<db, routes, created>>
            /\ ~HasRoute(db', s) => ~HasRoute(routes', s)
            /\ (proc[p].pc = "gLoad" /\ GetRoutesLoad(p) /\ ~HasRoute(db, s)) =>
                   /\ reqOut'.by = "getRoutes"
                   /\ ~HasRoute(routes', s)
            /\ ( /\ proc[p].pc = "cLoad"
                 /\ ControllerLoad(p)
                 /\ ~HasRoute(db, s)
                 /\ matchPath(proc[p].path, Patterns[s])
                 /\ \A o \in Services \ {s} : ~matchPath(proc[p].path, Patterns[o]) ) =>
                   /\ reqOut'.status = 404
                   /\ reqOut'.by = "controller"
      ]_vars

\* A createRoute call for svcA, none of whose endpoints is up, has been answered
\* 503; nothing is stored, and a request to /a/x is about to be resolved.
C19_Witness ==
    /\ reqOut.status = 503
    /\ reqOut.by = "createRoute"
    /\ reqOut.svc = "svcA"
    /\ alive = {}
    /\ db = <<>>
    /\ routes = <<>>
    /\ proc["p2"].pc = "cLoad"
    /\ proc["p2"].found.ok
    /\ matchPath(proc["p2"].path, Patterns["svcA"])

\* C20: the document a createRoute call stores has the submitted endpoints,
\* each with its url at its position, and an endpoint is stored active exactly
\* when it was submitted as active and its own probe was answered with 200.
C20_FlagsFollowProbes ==
    [][
        \A p \in Procs :
            (proc[p].pc = "rCreate" /\ CreateRouteInsert(p) /\ db' # db) =>
                LET dto == proc[p].dto[1]
                    stored == db'[Len(db')]
                IN  /\ stored.serviceId = dto.serviceId
                    /\ Len(stored.endpoints) = Len(dto.flags)
                    /\ \A i \in 1..Len(dto.flags) :
                          /\ stored.endpoints[i].url = Urls[dto.serviceId][i]
                          /\ stored.endpoints[i].isActive =
                                (dto.flags[i] /\ Urls[dto.serviceId][i] \in alive)
      ]_vars

\* ================================================== route administration
\* C21: a route's version only grows: createRoute stores version 1, every
\* updateRoute of a stored route leaves it with its version plus one, no step
\* lowers a stored version, and updateRoute of a serviceId that is not stored
\* is answered NotFound (404) and changes neither the collection nor the index.
C21_VersionMonotonic ==
    [][
        /\ \A p \in Procs :
              CreateRouteInsert(p) /\ db' # db => db'[Len(db')].version = 1
        /\ \A p \in Procs, s \in Services, dto \in UpdateRouteDtos :
              UpdateRoute(p, s, dto) =>
                 IF HasRoute(db, s)
                 THEN /\ HasRoute(db', s)
                      /\ RouteGet(db', s).version = RouteGet(db, s).version + 1
                 ELSE /\ reqOut'.by = "updateRoute" /\ reqOut'.status = 404
                      /\ db' = db /\ routes' = routes
        /\ \A s \in Services :
              HasRoute(db, s) /\ HasRoute(db', s) =>
                 RouteGet(db', s).version >= RouteGet(db, s).version
    ]_vars

\* Every route of the live index is stored with status ACTIVE.
IndexedAreActive ==
    \A i \in 1..Len(routes) :
        /\ HasRoute(db, routes[i].serviceId)
        /\ RouteGet(db, routes[i].serviceId).status = "ACTIVE"

\* C22: after any sequence of createRoute, updateRoute, deleteRoute and
\* refreshRoutes calls only routes stored as ACTIVE take part in dispatch: the
\* index holds ACTIVE routes only, getRouteForPath returns ACTIVE routes only,
\* a deleted route has left the index, and a stored route that updateRoute is
\* called on with status ACTIVE is in the index when the call is over.
C22_OnlyActiveDispatch ==
    [][
        /\ proc'["p1"].pc = "idle" => IndexedAreActive'
        /\ GetRouteForPathLoad("p1") /\ reqOut'.svc # "none" =>
              /\ HasRoute(db', reqOut'.svc)
              /\ RouteGet(db', reqOut'.svc).status = "ACTIVE"
        /\ \A s \in Services :
              proc["p1"].svc = s /\ DeleteRouteDone("p1") => ~HasRoute(routes', s)
        /\ \A s \in Services :
              /\ HasRoute(db, s)
              /\ UpdateRoute("p1", s, [status |-> "ACTIVE"])
              /\ proc'["p1"].pc = "idle"
              => HasRoute(routes', s)
        /\ \A s \in Services :
              /\ proc["p1"].svc = s
              /\ UpdateRouteSet("p1")
              /\ RouteGet(db, s).status = "ACTIVE"
              => HasRoute(routes', s)
    ]_vars

\* The positions of the path a match of pattern[1..j] from the start of the
\* path can end at, each * standing for a run of characters other than '/'.
RECURSIVE MatchEnds(_, _, _)
MatchEnds(path, pattern, j) ==
    IF j = 0 THEN {0}
    ELSE LET before == MatchEnds(path, pattern, j - 1)
         IN  IF pattern[j] = "*"
             THEN {m \in 0..Len(path) :
                      \E i \in before :
                         i <= m /\ \A x \in (i + 1)..m : path[x] # "/"}
             ELSE {i + 1 : i \in {k \in before :
                                     k < Len(path) /\ path[k + 1] = pattern[j]}}

\* The segment/prefix rule: some match of the whole pattern ends at the end of
\* the path or immediately before a '/'.
SegmentMatch(path, pattern) ==
    \E k \in MatchEnds(path, pattern, Len(pattern)) :
        k = Len(path) \/ path[k + 1] = "/"

\* C23: getRouteForPath resolves a path to the route exactly when the route's
\* pattern matches the path by the segment/prefix rule (the match ends at the
\* end of the path or before a '/', and * never stands for a '/'); so /test/*
\* matches /test/123 and /test/ but not /testing or /other, and /test matches
\* /test and /test/sub but not /testing.
C23_SegmentPrefixMatch ==
    [][
        GetRouteForPathLoad("p1") =>
           LET path == proc["p1"].path
               pattern == routes'[1].pathPattern
               matched == reqOut'.svc = "svcA"
           IN  /\ matched <=> SegmentMatch(path, pattern)
               /\ pattern = TestStar =>
                     /\ path \in {TestPlain \o <<"/", "1", "2", "3">>,
                                  TestPlain \o <<"/">>} => matched
                     /\ path \in {TestPlain \o <<"i", "n", "g">>,
                                  <<"/", "o", "t", "h", "e", "r">>} => ~matched
               /\ pattern = TestPlain =>
                     /\ path \in {TestPlain, TestPlain \o <<"/", "s", "u", "b">>}
                           => matched
                     /\ path = TestPlain \o <<"i", "n", "g">> => ~matched
    ]_vars

\* A path has just been resolved to the route whose pattern is /test/*.
C23_Witness ==
    /\ routes[1].pathPattern = TestStar
    /\ reqOut.by = "getRouteForPath" /\ reqOut.svc = "svcA"
    /\ proc["p1"].pc = "idle"
    /\ proc["p2"].pc = "idle"

TickMade == monitor.pc = "idle" /\ monitor.ticks > 0

\* C25: after each tick that ran to its end, a service has been alerted on in
\* that tick exactly if the tick reported it unhealthy and it has now been
\* reported unhealthy in alertThreshold (3) or more ticks in a row; its count
\* is the length of that run, and zero after a tick that reported it healthy.
C25_AlertFromThirdUnhealthy ==
    TickMade /\ monitor.error = "none" =>
       \A s \in Services :
          /\ s \in monitor.alerts <=>
                /\ monitor.health.services[s] = "unhealthy"
                /\ monitor.streak[s] >= alertThreshold
          /\ monitor.healthFailures[s] = monitor.streak[s]
          /\ monitor.health.services[s] = "healthy" => monitor.healthFailures[s] = 0

\* svcA is alerted on for the second time in a row, and svcB, healthy in this
\* tick after two unhealthy ticks, is back at zero.
C25_Witness ==
    /\ TickMade /\ monitor.error = "none"
    /\ monitor.alerts = {"svcA"}
    /\ monitor.streak["svcA"] = alertThreshold + 1
    /\ monitor.before.healthFailures["svcB"] = 2
    /\ monitor.healthFailures["svcB"] = 0

\* C26: a tick in which an error occurred is skipped as a whole: when it is
\* over no Health Record has been stored, no metric has been recorded and no
\* count of unhealthy checks has changed.
C26_FailedTickSkipped ==
    TickMade /\ monitor.error # "none" =>
       /\ monitor.records = monitor.before.records
       /\ monitor.metrics = monitor.before.metrics
       /\ monitor.healthFailures = monitor.before.healthFailures
       /\ monitor.alerts = {}

\* C27: a tick in which checkHealth returned and the store did not fail has
\* stored exactly one Health Record, with the gateway status, the statuses of
\* the services and the total and healthy counts of what checkHealth returned,
\* and has recorded the metrics once.
C27_OneRecordPerTick ==
    TickMade /\ monitor.returned /\ monitor.error \notin {"create", "save"} =>
       /\ monitor.records = monitor.before.records + 1
       /\ monitor.metrics = monitor.before.metrics + 1
       /\ hasServices(monitor.health)
       /\ monitor.lastRecord =
             [gateway |-> monitor.health.gateway,
              services |-> monitor.health.services,
              totalServices |-> Cardinality(Services),
              healthyServices |->
                 Cardinality({s \in Services : monitor.health.services[s] = "healthy"})]
       /\ monitor.lastMetric.totalServices = monitor.lastRecord.totalServices
       /\ monitor.lastMetric.healthyServices = monitor.lastRecord.healthyServices

\* ======================================================= refresh and cursor
\* C28: with routes and liveness unchanged, refreshRoutes and refreshEndpoints
\* calls change nothing that can be observed: getRouteForPath returns for
\* every path the route it returned before any refresh, and the i-th
\* getServiceInstance call for a service returns the URL it would have
\* returned had no refresh been made, endpoint[(i-1) mod k] of the live list.
C28_RefreshIdempotent ==
    [][
        /\ GetRouteForPathLoad("p1") =>
              reqOut'.svc = MatchedService(db, proc["p1"].path)
        /\ \A s \in Services :
              /\ proc["p1"].svc = s
              /\ GetServiceInstanceEndCounted("p1")
              /\ Len(LiveList(s)) >= 1
              => lbOut'.url = LiveList(s)[(calls[s] % Len(LiveList(s))) + 1]
    ]_vars

\* C29: getServiceInstance keeps the cursor modulo the length of the fresh
\* list: with i the cursor stored when the call started (0 if none was) and
\* the fresh live list of n >= 1 URLs, the call returns fresh[i mod n] and
\* stores the cursor ((i mod n) + 1) mod n with that list.
C29_CursorModuloFreshList ==
    [][
        \A p \in Procs, s \in Services :
           /\ GetServiceInstanceBegin(p, s) =>
                 proc'[p].idx = IF s \in DOMAIN serviceEndpoints
                                THEN serviceEndpoints[s].index ELSE 0
           /\ proc[p].svc = s /\ GetServiceInstanceEnd(p) /\ lbOut'.err = "none" =>
                 LET i == proc[p].idx
                     fresh == LiveList(s)
                     n == Len(fresh)
                 IN  /\ n >= 1
                     /\ lbOut'.urls = fresh
                     /\ lbOut'.url = fresh[(i % n) + 1]
                     /\ serviceEndpoints'[s] =
                           [index |-> ((i % n) + 1) % n, urls |-> fresh]
    ]_vars

\* svcA's list shrank from three URLs to two while its cursor stood at 2: the
\* call returned the first of the two and left the cursor at 1.
C29_Witness ==
    /\ lbOut.op = "get" /\ lbOut.svc = "svcA" /\ lbOut.err = "none"
    /\ lbOut.idx = 2
    /\ Len(lbOut.urls) = 2
    /\ lbOut.url = lbOut.urls[1]
    /\ "svcA" \in DOMAIN serviceEndpoints
    /\ serviceEndpoints["svcA"].index = 1

\* =========================================================== limit counting
\* C30: checkLimit counts before it checks: the stored count of a key is the
\* number of checkLimit calls made for it in its current window, admitted or
\* rejected (none, for a key without a counter), and a call whose count is
\* past Points is rejected.
C30_RejectedAreCounted ==
    /\ \A k \in Keys :
          IF k \in DOMAIN redis
          THEN redis[k].count = window[k].n
          ELSE window[k].n = 0
    /\ rlOut.key # "none" /\ rlOut.n > Points =>
          /\ rlOut.err = "TooManyRequests"
          /\ rlOut.remaining = 0

\* The call that took a key past the limit was rejected, and it is in the count.
C30_Witness ==
    /\ rlOut.key # "none"
    /\ rlOut.err = "TooManyRequests"
    /\ rlOut.key \in DOMAIN redis
    /\ redis[rlOut.key].count = Points + 1
    /\ window[rlOut.key].n = Points + 1

\* C31: updates to one service's breaker are never lost: under any
\* interleaving of concurrent requests for the same service, failureCount
\* equals the number of recordError calls completed since the breaker was
\* last CLOSED / 0, so failureThreshold failures, concurrent or not, leave
\* the breaker open.
C31_NoLostFailure ==
    \A s \in Services :
        /\ getServiceState(s).failures = run[s].n
        /\ run[s].n >= FailureThreshold => getServiceState(s).status # "CLOSED"

\* A request admitted while the breaker was CLOSED is still being forwarded
\* when the failure of another request for the same service, the
\* failureThreshold-th, is recorded and opens the breaker.
C31_Witness ==
    \E p \in Procs, q \in Procs :
        /\ p # q
        /\ proc[p].pc = "hForward"
        /\ proc[p].gate = "CLOSED"
        /\ proc[q].pc = "idle"
        /\ reqOut.by = "forward"
        /\ reqOut.status = 503
        /\ reqOut.svc = proc[p].svc
        /\ run[proc[p].svc].n = FailureThreshold
        /\ getServiceState(proc[p].svc).failures = FailureThreshold
        /\ getServiceState(proc[p].svc).status = "OPEN"

\* C33: breaker states of different services are independent: checkService,
\* recordSuccess and recordError for one serviceId never change the status,
\* failureCount or lastFailureTimestamp of any other serviceId (nor create
\* its entry), and a service never referenced before starts as
\* CLOSED / 0 / null.
C33_ServicesIndependent ==
    [][
        \A s \in Services :
            (CheckService(s) \/ RecordSuccess(s) \/ RecordError(s)
                \/ GetServiceStatus(s)) =>
                /\ \A t \in Services \ {s} :
                      /\ (t \in DOMAIN states') = (t \in DOMAIN states)
                      /\ getServiceState(t)' = getServiceState(t)
                /\ s \notin DOMAIN states =>
                      /\ lastCall'.pre =
                            [failures |-> 0, lastFailure |-> <<>>, status |-> "CLOSED"]
                      /\ GetServiceStatus(s) => lastCall'.res = "CLOSED"
                      /\ s \in DOMAIN states'
    ]_vars

\* A failure recorded for one service opened its breaker while the other
\* service's breaker, holding one failure of its own, is as it was.
C33_Witness ==
    \E s \in Services, t \in Services :
        /\ s # t
        /\ lastCall.op = "recordError"
        /\ lastCall.svc = s
        /\ getServiceState(s).status = "OPEN"
        /\ t \in DOMAIN states
        /\ states[t].failures = 1
        /\ states[t].status = "CLOSED"

\* C35: recordSuccess changes the breaker only in HALF_OPEN: recorded while
\* the breaker is CLOSED or OPEN it leaves status, failureCount and
\* lastFailureTimestamp unchanged; failureCount is the number of failures
\* recorded since the last HALF_OPEN success or reset, whatever successes
\* came between them, so failureThreshold failures open the breaker also
\* when successful requests occurred between them.
C35_SuccessOnlyInHalfOpen ==
    /\ (lastCall.op = "recordSuccess" /\ lastCall.pre.status \in {"CLOSED", "OPEN"}) =>
          /\ getServiceState(lastCall.svc).status = lastCall.pre.status
          /\ getServiceState(lastCall.svc).failures = lastCall.pre.failures
          /\ getServiceState(lastCall.svc).lastFailure = lastCall.pre.lastFailure
    /\ \A s \in Services :
          /\ getServiceState(s).failures = run[s].n
          /\ (~run[s].clean /\ run[s].n >= FailureThreshold) =>
                getServiceState(s).status \in {"OPEN", "HALF_OPEN"}
          /\ (~run[s].clean /\ run[s].n < FailureThreshold) =>
                getServiceState(s).status = "CLOSED"

\* A failure, a success while CLOSED, and the failure that reaches the
\* threshold: the breaker is OPEN.
C35_Witness ==
    /\ lastCall.op = "recordError"
    /\ lastCall.prev.op = "recordSuccess"
    /\ lastCall.prev.svc = lastCall.svc
    /\ lastCall.prev.status = "CLOSED"
    /\ lastCall.pre.failures = FailureThreshold - 1
    /\ lastCall.pre.status = "CLOSED"
    /\ run[lastCall.svc].n = FailureThreshold
    /\ getServiceState(lastCall.svc).status = "OPEN"

\* The breaker state invariant of one service.
BreakerStateOk(state) ==
    /\ state.failures >= 0
    /\ state.status \in {"CLOSED", "OPEN", "HALF_OPEN"}
    /\ state.status = "CLOSED" => state.failures < FailureThreshold
    /\ state.status \in {"OPEN", "HALF_OPEN"} =>
          /\ state.failures >= FailureThreshold
          /\ state.lastFailure # NoDate

\* C36: in every reachable breaker state failureCount >= 0, CLOSED implies
\* failureCount < failureThreshold, OPEN or HALF_OPEN implies
\* failureCount >= failureThreshold and a non-null lastFailureTimestamp; and
\* HALF_OPEN is only ever entered from OPEN, by a checkService.
C36_BreakerInvariants ==
    /\ \A s \in Services : BreakerStateOk(getServiceState(s))
    /\ [][
            \A s \in Services :
                /\ BreakerStateOk(getServiceState(s)')
                /\ ( /\ getServiceState(s)'.status = "HALF_OPEN"
                     /\ getServiceState(s).status # "HALF_OPEN" ) =>
                      /\ getServiceState(s).status = "OPEN"
                      /\ CheckService(s)
       ]_vars

\* One breaker has just been put on trial by a checkService, with exactly
\* failureThreshold failures; the other is CLOSED one failure short of the
\* threshold.
C36_Witness ==
    \E s \in Services, t \in Services :
        /\ lastCall.op = "checkService"
        /\ lastCall.svc = s
        /\ lastCall.pre.status = "OPEN"
        /\ getServiceState(s).status = "HALF_OPEN"
        /\ getServiceState(s).failures = FailureThreshold
        /\ getServiceState(s).lastFailure # NoDate
        /\ getServiceState(t).status = "CLOSED"
        /\ getServiceState(t).failures = FailureThreshold - 1

\* failureCount and lastFailureTimestamp of a breaker.
FailureRecord(s) ==
    [failures |-> getServiceState(s).failures,
     lastFailure |-> getServiceState(s).lastFailure]

\* C34: the failure count of a breaker changes only through the outcome of
\* a forwarded call: a request stopped by the rate limiter, by route
\* resolution, by the breaker gate or by endpoint selection leaves
\* failureCount and lastFailureTimestamp of every breaker unchanged, so a
\* service none of whose endpoints passes the liveness probe accumulates no
\* breaker failures.
C34_OnlyForwardsCount ==
    [][
        /\ \A s \in Services :
              FailureRecord(s)' # FailureRecord(s) =>
                  \E p \in Procs :
                      /\ proc[p].pc = "hForward"
                      /\ proc[p].svc = s
                      /\ proc'[p].pc = "idle"
                      /\ reqOut'.by = "forward"
        /\ \A p \in Procs :
              ( /\ proc[p].pc \in {"hExpire", "hLoad", "hGate", "hProbe"}
                /\ proc'[p].pc = "idle" ) =>
                  /\ reqOut'.by \in {"limit", "route", "gate", "select"}
                  /\ \A s \in Services : FailureRecord(s)' = FailureRecord(s)
        /\ (proc' = proc /\ redis' # redis /\ now' = now) =>
              /\ reqOut'.by = "limit"
              /\ \A s \in Services : FailureRecord(s)' = FailureRecord(s)
    ]_vars

\* A request for a service that has one recorded failure was stopped at
\* endpoint selection, its only active endpoint being down; the breaker still
\* holds one failure and is CLOSED.
C34_Witness ==
    /\ reqOut.by = "select"
    /\ reqOut.status = 503
    /\ reqOut.svc \in DOMAIN states
    /\ states[reqOut.svc].failures = 1
    /\ states[reqOut.svc].status = "CLOSED"
    /\ run[reqOut.svc].n = 1
    /\ "a1" \notin alive
    /\ \A p \in Procs : proc[p].pc = "idle"

C32_IndexNeverPartial ==
    [][
        /\ routes' # routes =>
              \E p \in Procs :
                  \/ /\ proc[p].pc \in {"mLoad", "gLoad", "fLoad"}
                     /\ proc'[p].pc # proc[p].pc
                     /\ proc[p].found.ok
                     /\ routes' = proc[p].found.docs
                  \/ /\ proc[p].pc = "rSet"
                     /\ proc'[p].pc = "idle"
                     /\ \E i \in 1..Len(routes') :
                           /\ routes'[i].serviceId = proc[p].svc
                           /\ MapDelete(routes', proc[p].svc) = MapDelete(routes, proc[p].svc)
                  \/ /\ proc[p].pc = "dDelete"
                     /\ proc'[p].pc = "idle"
                     /\ routes' = MapDelete(routes, proc[p].svc)
        /\ \A p \in Procs :
              /\ ( /\ proc[p].pc \in {"mLoad", "gLoad", "fLoad"}
                   /\ proc'[p].pc # proc[p].pc
                   /\ ~proc[p].found.ok ) => routes' = routes
              /\ (proc[p].pc = "mScan" /\ proc'[p].pc = "idle") =>
                    /\ routes' = routes
                    /\ reqOut'.by = "getRouteForPath"
                    /\ reqOut'.svc = MatchedService(routes, proc[p].path)
    ]_vars

\* A resolution has just answered svcA from the full index of two routes
\* while a refresh by the other caller, whose find saw one route only, is
\* still to rebuild the index.
C32_Witness ==
    \E q \in Procs :
        /\ reqOut.by = "getRouteForPath"
        /\ reqOut.svc = "svcA"
        /\ Len(routes) = 2
        /\ proc[q].pc = "fLoad"
        /\ proc[q].found.ok
        /\ Len(proc[q].found.docs) = 1

\* C37: the breaker recovers: an OPEN breaker on which no further failure is
\* recorded, with requests for the service arriving and time advancing,
\* eventually admits a request (HALF_OPEN); a HALF_OPEN breaker whose
\* admitted forwards record no failure eventually is CLOSED with
\* failureCount 0; and a CLOSED breaker leaves CLOSED only in a step that
\* records a failure.
C37_BreakerRecovers ==
    /\ \A s \in Services, k \in 0..(MaxFailures + 1) :
          /\ (getServiceState(s).status = "OPEN" /\ getServiceState(s).failures = k)
                ~> ( \/ getServiceState(s).status = "HALF_OPEN"
                     \/ getServiceState(s).failures # k )
          /\ (getServiceState(s).status = "HALF_OPEN" /\ getServiceState(s).failures = k)
                ~> ( \/ getServiceState(s) = FreshState
                     \/ getServiceState(s).failures > k )
    /\ [][
            \A s \in Services :
                ( /\ getServiceState(s).status = "CLOSED"
                  /\ getServiceState(s)'.status # "CLOSED" ) =>
                    getServiceState(s)'.failures = getServiceState(s).failures + 1
       ]_vars

\* svcA's breaker is CLOSED with no failure counted after it had been opened:
\* the request answered last was admitted and forwarded with success once the
\* reset timeout had passed.
C37_Witness ==
    /\ "svcA" \in DOMAIN states
    /\ states["svcA"] = FreshState
    /\ run["svcA"].lastErr # NoDate
    /\ now >= run["svcA"].lastErr[1] + ResetTimeout
    /\ reqOut.by = "forward"
    /\ reqOut.svc = "svcA"
    /\ reqOut.status = 200


====
